---- MODULE Spec2Model ----
(***************************************************************************)
(* Model of the sentiment-analysis backend: the item store (save_posts),   *)
(* the aggregator jobs of the scheduler, and the backfill orchestration of *)
(* main.py.                                                                 *)
(***************************************************************************)
EXTENDS Integers, Sequences, FiniteSets, Bags, TLC

VARIABLES posts, sv, hist, summaries, now, job,
          backfill_status, workers, req, sigalrm, topics, tjob

storeVars == <<posts, sv>>
sumVars == <<summaries, now, job>>
bfVars == <<backfill_status, workers, req, sigalrm>>
topicVars == <<topics, tjob>>
vars == <<posts, sv, hist, summaries, now, job,
          backfill_status, workers, req, sigalrm, topics, tjob>>

(***************************************************************************)
(* Bounds of the model.                                                     *)
(***************************************************************************)
MaxId == 2
MaxBatch == 2
MaxConcId == 1
MaxConcBatch == 1
MaxDay == 2

Ids == 1..MaxId

(***************************************************************************)
(* Sentiment labels.  The compound score, which the lexicon library rounds *)
(* to four decimals, is kept in ten-thousandths.                           *)
(***************************************************************************)
PositiveThreshold == 500
NegativeThreshold == -500

\* a classification with strict comparisons in every branch
ClassifyStrict(compound) ==
    IF compound > PositiveThreshold THEN "positive"
    ELSE IF compound < NegativeThreshold THEN "negative"
    ELSE IF compound > NegativeThreshold /\ compound < PositiveThreshold
    THEN "neutral"
    ELSE "unclassified"

Classify(compound) ==
    IF compound >= PositiveThreshold THEN "positive"
    ELSE IF compound <= NegativeThreshold THEN "negative"
    ELSE "neutral"

(***************************************************************************)
(* The dictionary a collector builds for one submission (post_data).  The  *)
(* vote score of a submission changes between two fetches of the same id.  *)
(***************************************************************************)
\* analyzer.extract_topics(full_text): the tags found in the text of
\* submission id, each at most once; one submission in three has no tag
TopicsOf(id) ==
    IF id % 3 = 1 THEN <<"milei">>
    ELSE IF id % 3 = 2 THEN <<"milei", "macri">>
    ELSE <<>>

PostData(id, day, compound, score) ==
    [id |-> id, created_utc |-> day, sentiment |-> Classify(compound),
     sentiment_score |-> compound, score |-> score, topics |-> TopicsOf(id)]

\* a row built without the score of the post_data
PostRowDefaultScore(post_data) ==
    [id |-> post_data.id, created_utc |-> post_data.created_utc,
     sentiment |-> post_data.sentiment,
     sentiment_score |-> post_data.sentiment_score, score |-> 0,
     topics |-> post_data.topics]

\* Post(...) as built by save_posts from one post_data
PostRow(post_data) ==
    [id |-> post_data.id, created_utc |-> post_data.created_utc,
     sentiment |-> post_data.sentiment,
     sentiment_score |-> post_data.sentiment_score, score |-> post_data.score,
     topics |-> post_data.topics]

\* sequences over S of length 1..n
SeqsUpTo(S, n) == UNION {[1..k -> S] : k \in 1..n}

(***************************************************************************)
(* The posts table: a bag of rows.  Post.id is the primary key.            *)
(***************************************************************************)
StoredIds(table) == {r.id : r \in BagToSet(table)}

\* an existence query that never finds the row
ExistingNever(table, post_id) == FALSE

\* db.query(Post).filter(Post.id == post_id).first()
Existing(table, post_id) == post_id \in StoredIds(table)

\* a posts table whose id column is not a key
PrimaryKeyUnchecked(table, row) == TRUE

\* Column(String, primary_key=True): an INSERT of a stored id is refused
PrimaryKeyOk(table, row) == row.id \notin StoredIds(table)

\* the rows of a sequence, as a bag
RowsBag(rows) ==
    LET F[k \in 0..Len(rows)] ==
            IF k = 0 THEN EmptyBag ELSE F[k - 1] (+) SetToBag({rows[k]})
    IN F[Len(rows)]

\* db.commit(): the flush INSERTs the pending rows in order; the first row
\* that breaks the primary key raises IntegrityError.  The result is the
\* number of rows inserted before the error, or Len(rows) when none breaks it.
FlushedBeforeConflict(table, rows) ==
    LET bad == {k \in 1..Len(rows) :
                   ~PrimaryKeyOk(table (+) RowsBag(SubSeq(rows, 1, k - 1)), rows[k])}
    IN IF bad = {} THEN Len(rows)
       ELSE (CHOOSE k \in bad : \A j \in bad : k <= j) - 1

\* a rollback that keeps the rows already flushed
RollbackKeepsFlushed(table, flushed) == table (+) flushed

\* db.rollback(): the rows flushed by the open transaction are discarded
Rollback(table, flushed) == table

\* the except clause of save_posts prints and does not raise again
Reraises == FALSE

Callers == {"cycle", "refresh", "script", "w1", "w2"}

IdleSession ==
    [pc |-> "idle", posts_data |-> <<>>, i |-> 0, seen_ids |-> {},
     new |-> <<>>, saved_count |-> 0, skipped_count |-> 0,
     outcome |-> "none", error |-> "none", printed |-> <<>>,
     propagated |-> FALSE]

\* SessionLocal() and the counters before the for loop
OpenSession(batch) ==
    [IdleSession EXCEPT !.pc = "loop", !.posts_data = batch, !.i = 1]

\* save_posts(posts_data): entry, up to the for loop
SaveBegin(p, batch) ==
    /\ sv[p].pc = "idle"
    /\ sv' = [sv EXCEPT ![p] = OpenSession(batch)]
    /\ UNCHANGED <<posts, sumVars, bfVars>>

\* one iteration of the for loop
SaveItem(p) ==
    LET s == sv[p]
        post_data == s.posts_data[s.i]
        post_id == post_data.id
    IN /\ s.pc = "loop"
       /\ s.i <= Len(s.posts_data)
       /\ sv' = [sv EXCEPT ![p] =
                   IF post_id \in s.seen_ids
                   THEN [s EXCEPT !.skipped_count = @ + 1, !.i = @ + 1]
                   ELSE IF Existing(posts, post_id)
                   THEN [s EXCEPT !.skipped_count = @ + 1, !.i = @ + 1]
                   ELSE [s EXCEPT !.seen_ids = @ \cup {post_id},
                                  !.new = Append(@, PostRow(post_data)),
                                  !.saved_count = @ + 1, !.i = @ + 1]]
       /\ UNCHANGED <<posts, sumVars, bfVars>>

\* db.commit() after the loop, and the prints that follow it; an INSERT that
\* breaks the primary key raises IntegrityError, handled by the except clause
SaveCommit(p) ==
    LET s == sv[p]
        n == FlushedBeforeConflict(posts, s.new)
    IN /\ s.pc = "loop"
       /\ s.i > Len(s.posts_data)
       /\ IF n = Len(s.new)
          THEN /\ posts' = posts (+) RowsBag(s.new)
               /\ sv' = [sv EXCEPT ![p] =
                           [s EXCEPT !.pc = "done", !.outcome = "committed",
                                     !.printed = <<s.saved_count, s.skipped_count>>]]
          ELSE /\ posts' = Rollback(posts, RowsBag(SubSeq(s.new, 1, n)))
               /\ sv' = [sv EXCEPT ![p] =
                           [s EXCEPT !.pc = "done", !.outcome = "rolled_back",
                                     !.error = "IntegrityError",
                                     !.propagated = Reraises]]
       /\ UNCHANGED <<sumVars, bfVars>>

\* a database operation raises (the existence query of an iteration, or the
\* commit after k of the pending rows were flushed): except clause, rollback
SaveFail(p) ==
    LET s == sv[p]
    IN /\ s.pc = "loop"
       /\ \E k \in 0..Len(s.new) :
            /\ k > 0 => s.i > Len(s.posts_data)
            /\ k <= FlushedBeforeConflict(posts, s.new)
            /\ posts' = Rollback(posts, RowsBag(SubSeq(s.new, 1, k)))
       /\ sv' = [sv EXCEPT ![p] =
                   [s EXCEPT !.pc = "done", !.outcome = "rolled_back",
                             !.error = "OperationalError",
                             !.propagated = Reraises]]
       /\ UNCHANGED <<sumVars, bfVars>>

\* finally: db.close(), and the return to the caller
SaveReturn(p) ==
    /\ sv[p].pc = "done"
    /\ sv' = [sv EXCEPT ![p] = IdleSession]
    /\ UNCHANGED <<posts, sumVars, bfVars>>

(***************************************************************************)
(* The daily summary job of the scheduler.  The clock counts days; the job *)
(* is scheduled with at most one running instance.                         *)
(***************************************************************************)
Days == 0..MaxDay

SummaryDates(table) == {r.date : r \in BagToSet(table)}

\* an existence check that never finds the summary
ExistingSummaryNever(table, date) == FALSE

\* db.query(DailySummary).filter(DailySummary.date == yesterday).first()
ExistingSummary(table, date) == date \in SummaryDates(table)

\* Column(DateTime, unique=True)
UniqueDateOk(table, row) == row.date \notin SummaryDates(table)

\* a query that has no upper limit on created_utc
PostsFromOn(table, yesterday, today) ==
    {r \in BagToSet(table) : r.created_utc >= yesterday}

\* db.query(Post).filter(Post.created_utc >= yesterday, Post.created_utc < today)
PostsOfDay(table, yesterday, today) ==
    {r \in BagToSet(table) : r.created_utc >= yesterday /\ r.created_utc < today}

\* sum(1 for p in posts if p.sentiment == label)
CountLabel(rows, label) == Cardinality({r \in rows : r.sentiment = label})

\* sum(p.sentiment_score for p in posts)
RECURSIVE SumScores(_)
SumScores(rows) ==
    IF rows = {} THEN 0
    ELSE LET r == CHOOSE x \in rows : TRUE
         IN r.sentiment_score + SumScores(rows \ {r})

\* a summary keyed by the day after the one it was computed for
SummaryRowKeyedToday(yesterday, rows) ==
    [date |-> yesterday + 1, total_posts |-> Cardinality(rows),
     positive_count |-> CountLabel(rows, "positive"),
     negative_count |-> CountLabel(rows, "negative"),
     neutral_count |-> CountLabel(rows, "neutral"),
     positive_pct |-> <<CountLabel(rows, "positive"), Cardinality(rows)>>,
     negative_pct |-> <<CountLabel(rows, "negative"), Cardinality(rows)>>,
     neutral_pct |-> <<CountLabel(rows, "neutral"), Cardinality(rows)>>,
     avg_sentiment_score |-> <<SumScores(rows), Cardinality(rows)>>]

\* DailySummary(...): a fraction count / total is kept as the pair <<count, total>>
SummaryRow(yesterday, rows) ==
    LET total == Cardinality(rows)
        positive == CountLabel(rows, "positive")
        negative == CountLabel(rows, "negative")
        neutral == CountLabel(rows, "neutral")
    IN [date |-> yesterday, total_posts |-> total,
        positive_count |-> positive, negative_count |-> negative,
        neutral_count |-> neutral,
        positive_pct |-> <<positive, total>>,
        negative_pct |-> <<negative, total>>,
        neutral_pct |-> <<neutral, total>>,
        avg_sentiment_score |-> <<SumScores(rows), total>>]

IdleJob == [pc |-> "idle", today |-> 0, yesterday |-> 0, rows |-> {},
            result |-> "none"]

\* generate_daily_summary: the two dates and the existence check
SummaryStart ==
    /\ job.pc = "idle"
    /\ job' = IF ExistingSummary(summaries, now - 1)
              THEN [IdleJob EXCEPT !.result = "exists"]
              ELSE [IdleJob EXCEPT !.pc = "query", !.today = now,
                                   !.yesterday = now - 1]
    /\ UNCHANGED <<summaries, now, storeVars, bfVars>>

\* a test that never takes the early return
NoPostsNever(rows) == FALSE

\* if not posts
NoPosts(rows) == rows = {}

\* the query of yesterday's posts; with none the job returns
SummaryQuery ==
    LET rows == PostsOfDay(posts, job.yesterday, job.today)
    IN /\ job.pc = "query"
       /\ job' = IF NoPosts(rows)
                 THEN [IdleJob EXCEPT !.result = "empty"]
                 ELSE [job EXCEPT !.pc = "write", !.rows = rows]
       /\ UNCHANGED <<summaries, now, storeVars, bfVars>>

\* the statistics, db.add(summary) and db.commit()
SummaryCommit ==
    LET row == SummaryRow(job.yesterday, job.rows)
    IN /\ job.pc = "write"
       /\ IF UniqueDateOk(summaries, row)
          THEN /\ summaries' = summaries (+) SetToBag({row})
               /\ job' = [IdleJob EXCEPT !.result = "written"]
          ELSE /\ summaries' = summaries
               /\ job' = [IdleJob EXCEPT !.result = "failed"]
       /\ UNCHANGED <<now, storeVars, bfVars>>

\* a database operation of the job raises: rollback in the except clause
SummaryFail ==
    /\ job.pc \in {"query", "write"}
    /\ job' = [IdleJob EXCEPT !.result = "failed"]
    /\ UNCHANGED <<summaries, now, storeVars, bfVars>>

\* midnight
Tick ==
    /\ now < MaxDay
    /\ now' = now + 1
    /\ UNCHANGED <<summaries, job, storeVars, bfVars>>

(***************************************************************************)
(* The topic trend job of the scheduler, scheduled like the summary job    *)
(* with at most one running instance.                                      *)
(***************************************************************************)
MaxTopicRuns == 2

\* runs counts the invocations of the job that reached the commit
IdleTopicJob ==
    [pc |-> "idle", today |-> 0, rows |-> {}, result |-> "none", runs |-> 0]

\* a query with no date filter
PostsAll(table, today) == BagToSet(table)

\* db.query(Post).filter(Post.created_utc >= today).all()
PostsSince(table, today) == {r \in BagToSet(table) : r.created_utc >= today}

\* the keys of topic_data: the tags of the rows that have topics
TopicNames(rows) == UNION {{r.topics[k] : k \in 1..Len(r.topics)} : r \in rows}

\* the rows that carry a tag
Tagged(rows, name) == {r \in rows : \E k \in 1..Len(r.topics) : r.topics[k] = name}

\* Topic(...) for one key of topic_data; the average is kept as the pair
\* <<sum of scores, number of scores>>
TopicRow(name, today, rows) ==
    LET tagged == Tagged(rows, name)
    IN [name |-> name, date |-> today,
        mention_count |-> Cardinality(tagged),
        avg_sentiment |-> <<SumScores(tagged), Cardinality(tagged)>>,
        positive_mentions |-> CountLabel(tagged, "positive"),
        negative_mentions |-> CountLabel(tagged, "negative"),
        neutral_mentions |-> CountLabel(tagged, "neutral")]

\* update_topic_trends: the date and the query of today's posts; with none
\* the job returns
TopicQuery ==
    LET rows == PostsSince(posts, now)
    IN /\ tjob.pc = "idle"
       /\ tjob.runs < MaxTopicRuns
       /\ tjob' = IF rows = {}
                  THEN [IdleTopicJob EXCEPT !.result = "empty",
                                            !.runs = tjob.runs]
                  ELSE [IdleTopicJob EXCEPT !.pc = "write", !.today = now,
                                            !.rows = rows, !.runs = tjob.runs]
       /\ UNCHANGED <<topics, storeVars, sumVars, bfVars>>

\* the loop over the posts, one Topic per key of topic_data, db.commit()
TopicCommit ==
    /\ tjob.pc = "write"
    /\ topics' = topics (+)
          SetToBag({TopicRow(name, tjob.today, tjob.rows) :
                       name \in TopicNames(tjob.rows)})
    /\ tjob' = [IdleTopicJob EXCEPT !.result = "written",
                                    !.runs = tjob.runs + 1]
    /\ UNCHANGED <<storeVars, sumVars, bfVars>>

\* a database operation of the job raises: rollback in the except clause
TopicFail ==
    /\ tjob.pc = "write"
    /\ tjob' = [IdleTopicJob EXCEPT !.result = "failed", !.runs = tjob.runs]
    /\ UNCHANGED <<topics, storeVars, sumVars, bfVars>>

(***************************************************************************)
(* The backfill of main.py: the status record, the worker threads started  *)
(* by check_and_start_backfill, and the provider's listings.               *)
(***************************************************************************)
NumPeriods == 3
NumSubs == 2
MaxCollected == 2
MaxClears == 1
MinPosts == 200
MinSpanDays == 30

Workers == {"w1", "w2"}

FreshStatus ==
    [in_progress |-> FALSE, completed |-> FALSE, posts_collected |-> 0,
     error |-> "none"]

NoWorker ==
    [pc |-> "none", period |-> 0, sub |-> 0, post_ids |-> {},
     all_collected_items |-> <<>>, timeout_set |-> FALSE,
     save_outcome |-> "none"]

\* threading.Thread(target=run_historical_backfill): never the main thread
WorkerThreadIsMain == FALSE

\* the submissions a listing can hold: an id and the number of keywords matched
Submission(id, matches) == [id |-> id, matches |-> matches]

\* the for loops over time_periods and collector.subreddits: the next pair, or
\* the persist step after the last one
NextPair(wr) ==
    IF wr.sub < NumSubs
    THEN [wr EXCEPT !.pc = "pair", !.sub = @ + 1, !.post_ids = {},
                    !.timeout_set = FALSE]
    ELSE IF wr.period < NumPeriods
    THEN [wr EXCEPT !.pc = "pair", !.period = @ + 1, !.sub = 1,
                    !.post_ids = {}, !.timeout_set = FALSE]
    ELSE [wr EXCEPT !.pc = "persist", !.post_ids = {}, !.timeout_set = FALSE]

\* run_historical_backfill: in_progress, started_at, the empty list
WorkerStart(w) ==
    /\ workers[w].pc = "start"
    /\ backfill_status' = [backfill_status EXCEPT !.in_progress = TRUE]
    /\ workers' = [workers EXCEPT ![w] =
                     [@ EXCEPT !.pc = "pair", !.period = 1, !.sub = 1]]
    /\ UNCHANGED <<req, sigalrm, storeVars, sumVars>>

\* the start of one (period, subreddit) pair: where SIGALRM exists,
\* signal.signal is called, which raises ValueError outside the main thread
\* (handled by except Exception: continue); where it does not exist the
\* listing is read with no timeout
WorkerEnterPair(w) ==
    LET wr == workers[w]
    IN /\ wr.pc = "pair"
       /\ workers' = [workers EXCEPT ![w] =
                        IF sigalrm /\ ~WorkerThreadIsMain
                        THEN NextPair(wr)
                        ELSE [wr EXCEPT !.pc = "fetch", !.post_ids = {},
                                        !.timeout_set = sigalrm]]
       /\ UNCHANGED <<backfill_status, req, sigalrm, storeVars, sumVars>>

\* matches < 1
Irrelevant(submission) == submission.matches < 1

\* one iteration of the loop over reddit_sub.top(...): the provider yields
WorkerYield(w, submission) ==
    LET wr == workers[w]
    IN /\ wr.pc = "fetch"
       /\ Len(wr.all_collected_items) < MaxCollected
       /\ workers' = [workers EXCEPT ![w] =
                        IF submission.id \in wr.post_ids \/ Irrelevant(submission)
                        THEN wr
                        ELSE [wr EXCEPT
                                !.all_collected_items =
                                    Append(@, PostData(submission.id, 0, 0, 0)),
                                !.post_ids = @ \cup {submission.id}]]
       /\ UNCHANGED <<backfill_status, req, sigalrm, storeVars, sumVars>>

\* the listing is exhausted: finally, and the next pair
WorkerListingEnd(w) ==
    /\ workers[w].pc = "fetch"
    /\ workers' = [workers EXCEPT ![w] = NextPair(@)]
    /\ UNCHANGED <<backfill_status, req, sigalrm, storeVars, sumVars>>

\* the provider raises in the listing: except Exception, continue
WorkerFetchRaises(w) ==
    /\ workers[w].pc = "fetch"
    /\ workers' = [workers EXCEPT ![w] = NextPair(@)]
    /\ UNCHANGED <<backfill_status, req, sigalrm, storeVars, sumVars>>

\* the provider stops answering: the thread waits in the listing
WorkerBlocks(w) ==
    /\ workers[w].pc = "fetch"
    /\ workers' = [workers EXCEPT ![w].pc = "blocked"]
    /\ UNCHANGED <<backfill_status, req, sigalrm, storeVars, sumVars>>

\* an else branch that marks the run completed and sets no error
WorkerNothingCollectedSilent(w) ==
    /\ workers[w].pc = "persist"
    /\ workers[w].all_collected_items = <<>>
    /\ backfill_status' = [backfill_status EXCEPT !.completed = TRUE]
    /\ workers' = [workers EXCEPT ![w].pc = "finally"]
    /\ UNCHANGED <<req, sigalrm, storeVars, sumVars>>

\* after the loops, with nothing collected
WorkerNothingCollected(w) ==
    /\ workers[w].pc = "persist"
    /\ workers[w].all_collected_items = <<>>
    /\ backfill_status' = [backfill_status EXCEPT !.completed = TRUE,
                                                  !.error = "No posts collected"]
    /\ workers' = [workers EXCEPT ![w].pc = "finally"]
    /\ UNCHANGED <<req, sigalrm, storeVars, sumVars>>

\* a call of save_posts that marks the run completed before it returns
WorkerCallsSaveAndCompletes(w) ==
    /\ workers[w].pc = "persist"
    /\ workers[w].all_collected_items # <<>>
    /\ sv[w].pc = "idle"
    /\ sv' = [sv EXCEPT ![w] = OpenSession(workers[w].all_collected_items)]
    /\ workers' = [workers EXCEPT ![w].pc = "saving"]
    /\ backfill_status' = [backfill_status EXCEPT !.completed = TRUE]
    /\ UNCHANGED <<posts, req, sigalrm, sumVars>>

\* after the loops, with items collected: the call of save_posts
WorkerCallsSave(w) ==
    /\ workers[w].pc = "persist"
    /\ workers[w].all_collected_items # <<>>
    /\ sv[w].pc = "idle"
    /\ sv' = [sv EXCEPT ![w] = OpenSession(workers[w].all_collected_items)]
    /\ workers' = [workers EXCEPT ![w].pc = "saving"]
    /\ UNCHANGED <<posts, backfill_status, req, sigalrm, sumVars>>

\* save_posts has returned (it returns nothing): posts_collected, completed
WorkerAfterSave(w) ==
    /\ workers[w].pc = "saving"
    /\ sv[w].pc = "done"
    /\ sv' = [sv EXCEPT ![w] = IdleSession]
    /\ backfill_status' =
          [backfill_status EXCEPT
             !.posts_collected = Len(workers[w].all_collected_items),
             !.completed = TRUE]
    /\ workers' = [workers EXCEPT ![w] =
                     [@ EXCEPT !.pc = "finally", !.save_outcome = sv[w].outcome]]
    /\ UNCHANGED <<posts, req, sigalrm, sumVars>>

\* finally: in_progress = False
WorkerFinally(w) ==
    /\ workers[w].pc = "finally"
    /\ backfill_status' = [backfill_status EXCEPT !.in_progress = FALSE]
    /\ workers' = [workers EXCEPT ![w].pc = "done"]
    /\ UNCHANGED <<req, sigalrm, storeVars, sumVars>>

\* the created_utc of the oldest and of the newest row
Oldest(table) ==
    CHOOSE d \in {r.created_utc : r \in BagToSet(table)} :
        \A r \in BagToSet(table) : d <= r.created_utc
Newest(table) ==
    CHOOSE d \in {r.created_utc : r \in BagToSet(table)} :
        \A r \in BagToSet(table) : d >= r.created_utc

\* Post.created_utc is Column(DateTime): the rows come back with naive
\* datetimes, while now is datetime.now(timezone.utc)
StoredDatesAreAware == FALSE

\* what check_and_start_backfill decides from the posts table; comparing a
\* naive created_utc with the aware now raises TypeError ("raises")
BackfillDecision(table, today) ==
    LET total_posts == Cardinality(BagToSet(table))
    IN IF total_posts > 0
       THEN IF ~StoredDatesAreAware THEN "raises"
            ELSE IF Newest(table) > today + 1 THEN "future"
            ELSE IF total_posts >= MinPosts
                      /\ Newest(table) - Oldest(table) >= MinSpanDays
            THEN "skip"
            ELSE "start"
       ELSE "start"

\* check_and_start_backfill: the status record and the worker slots after it
CheckAndStart(status) ==
    LET decision == BackfillDecision(posts, now)
    IN IF decision = "future"
       THEN /\ backfill_status' =
                  [status EXCEPT !.error = "Database contains invalid future dates",
                                 !.completed = TRUE]
            /\ workers' = workers
       ELSE IF decision = "skip"
       THEN /\ backfill_status' = [status EXCEPT !.completed = TRUE]
            /\ workers' = workers
       ELSE IF decision = "raises"
       THEN /\ backfill_status' = status
            /\ workers' = workers
       ELSE /\ backfill_status' = status
            /\ \E w \in Workers :
                  /\ workers[w].pc \in {"none", "done"}
                  /\ workers' = [workers EXCEPT ![w] =
                                   [NoWorker EXCEPT !.pc = "start"]]

\* lifespan: check_and_start_backfill() at startup
StartupCheck ==
    /\ req.pc = "startup"
    /\ CheckAndStart(backfill_status)
    /\ req' = [req EXCEPT !.pc = "idle"]
    /\ UNCHANGED <<sigalrm, storeVars, sumVars>>

\* POST /clear-database: the three deletes and the commit
ClearTables ==
    /\ req.pc = "idle"
    /\ req.clears < MaxClears
    /\ posts' = EmptyBag
    /\ summaries' = EmptyBag
    /\ topics' = EmptyBag
    /\ req' = [pc |-> "cleared", clears |-> req.clears + 1]
    /\ UNCHANGED <<sv, now, job, backfill_status, workers, sigalrm>>

\* clear_database: backfill_status is replaced by a fresh record
ClearResetStatus ==
    /\ req.pc = "cleared"
    /\ backfill_status' = FreshStatus
    /\ req' = [req EXCEPT !.pc = "reset"]
    /\ UNCHANGED <<workers, sigalrm, storeVars, sumVars>>

\* clear_database: check_and_start_backfill()
ClearCheck ==
    /\ req.pc = "reset"
    /\ CheckAndStart(backfill_status)
    /\ req' = [req EXCEPT !.pc = "idle"]
    /\ UNCHANGED <<sigalrm, storeVars, sumVars>>

(***************************************************************************)
(* One caller after the other: the calls of save_posts made by successive  *)
(* incremental cycles.  hist records the call that returned last.           *)
(***************************************************************************)
NoCall == [posts_data |-> <<>>, outcome |-> "none", store |-> EmptyBag]

StoreItems == {PostData(id, 0, 0, 0) : id \in Ids}

SeqInit ==
    /\ posts = EmptyBag
    /\ sv = [p \in Callers |-> IdleSession]
    /\ hist = NoCall
    /\ summaries = EmptyBag
    /\ now = 0
    /\ job = IdleJob
    /\ backfill_status = FreshStatus
    /\ workers = [w \in Workers |-> NoWorker]
    /\ req = [pc |-> "idle", clears |-> 0]
    /\ sigalrm = TRUE
    /\ topics = EmptyBag
    /\ tjob = IdleTopicJob

SeqNext ==
    \/ \E batch \in SeqsUpTo(StoreItems, MaxBatch) :
          SaveBegin("cycle", batch) /\ UNCHANGED <<hist, topicVars>>
    \/ SaveItem("cycle") /\ UNCHANGED <<hist, topicVars>>
    \/ SaveCommit("cycle") /\ UNCHANGED <<hist, topicVars>>
    \/ SaveFail("cycle") /\ UNCHANGED <<hist, topicVars>>
    \/ /\ SaveReturn("cycle")
       /\ hist' = [posts_data |-> sv["cycle"].posts_data,
                   outcome |-> sv["cycle"].outcome, store |-> posts]
       /\ UNCHANGED topicVars

SeqSpec == SeqInit /\ [][SeqNext]_vars

\* C1: when save_posts(B) has committed, an immediately following
\* save_posts(B) adds no row, leaves the table as it was and, when it commits,
\* reports 0 saved and Len(B) skipped (duplicates inside B included).
C1_ResaveIsNoOp ==
    LET s == sv["cycle"]
    IN (s.pc = "done" /\ hist.outcome = "committed" /\ s.posts_data = hist.posts_data)
         => /\ s.saved_count = 0
            /\ s.new = <<>>
            /\ posts = hist.store
            /\ s.outcome = "committed" => s.printed = <<0, Len(s.posts_data)>>

\* the second of two committed calls with the same batch, which holds one id twice
C1_Witness ==
    LET s == sv["cycle"]
    IN /\ s.pc = "done" /\ s.outcome = "committed"
       /\ hist.outcome = "committed" /\ s.posts_data = hist.posts_data
       /\ Len(s.posts_data) = 2
       /\ s.posts_data[1].id = s.posts_data[2].id
       /\ s.printed = <<0, 2>>

\* C3: a call of save_posts that meets a persistence failure, at a query or
\* at the final commit, leaves the table as it was before the call and lets no
\* exception out.
C3_FailureLeavesStore ==
    LET s == sv["cycle"]
    IN (s.pc = "done" /\ s.outcome = "rolled_back")
         => posts = hist.store /\ ~s.propagated

\* a call that failed at the commit with rows pending
C3_Witness ==
    LET s == sv["cycle"]
    IN /\ s.pc = "done" /\ s.outcome = "rolled_back"
       /\ s.i > Len(s.posts_data)
       /\ Len(s.new) = 2

(***************************************************************************)
(* Concurrent callers: the scheduler's cycle, the refresh endpoint and a   *)
(* backfill worker each run save_posts in a thread of their own.           *)
(***************************************************************************)
ConcCallers == {"cycle", "refresh", "w1"}

ConcItems == {PostData(id, 0, 0, 0) : id \in 1..MaxConcId}

ConcInit == SeqInit

ConcNext ==
    \E p \in ConcCallers :
       \/ \E batch \in SeqsUpTo(ConcItems, MaxConcBatch) :
             SaveBegin(p, batch) /\ UNCHANGED <<hist, topicVars>>
       \/ SaveItem(p) /\ UNCHANGED <<hist, topicVars>>
       \/ SaveCommit(p) /\ UNCHANGED <<hist, topicVars>>
       \/ SaveFail(p) /\ UNCHANGED <<hist, topicVars>>
       \/ SaveReturn(p) /\ UNCHANGED <<hist, topicVars>>

ConcSpec == ConcInit /\ [][ConcNext]_vars

\* C2: whatever the interleaving of the concurrent save_posts calls, the
\* table never holds two rows with one id.
C2_OneRowPerId ==
    /\ \A r \in BagToSet(posts) : CopiesIn(r, posts) = 1
    /\ \A r1, r2 \in BagToSet(posts) : r1.id = r2.id => r1 = r2

\* two overlapping calls offered the same id: one committed it, the commit of
\* the other was refused
C2_Witness ==
    \E p, q \in ConcCallers :
       /\ p # q
       /\ sv[p].pc = "done" /\ sv[p].error = "IntegrityError"
       /\ sv[q].pc = "done" /\ sv[q].outcome = "committed"
       /\ \E k \in 1..Len(sv[q].new) : sv[q].new[k].id \in sv[p].seen_ids

(***************************************************************************)
(* The daily summary job, the clock and the inserts of the incremental     *)
(* cycle.                                                                   *)
(***************************************************************************)
\* the compound score of the text of submission id: one submission in three
\* scores on the positive threshold, one on the negative, one in between
CompoundOf(id) ==
    IF id % 3 = 1 THEN PositiveThreshold
    ELSE IF id % 3 = 2 THEN NegativeThreshold
    ELSE 0

\* the items a collector can hold on day `today`
SumItems(today) ==
    {PostData(id, day, CompoundOf(id), 0) : id \in Ids, day \in 0..today}

SumInit == SeqInit

SumNext ==
    \/ \E x \in SumItems(now) : SaveBegin("cycle", <<x>>) /\ UNCHANGED <<hist, topicVars>>
    \/ SaveItem("cycle") /\ UNCHANGED <<hist, topicVars>>
    \/ SaveCommit("cycle") /\ UNCHANGED <<hist, topicVars>>
    \/ SaveFail("cycle") /\ UNCHANGED <<hist, topicVars>>
    \/ SaveReturn("cycle") /\ UNCHANGED <<hist, topicVars>>
    \/ SummaryStart /\ UNCHANGED <<hist, topicVars>>
    \/ SummaryQuery /\ UNCHANGED <<hist, topicVars>>
    \/ SummaryCommit /\ UNCHANGED <<hist, topicVars>>
    \/ SummaryFail /\ UNCHANGED <<hist, topicVars>>
    \/ Tick /\ UNCHANGED <<hist, topicVars>>

SumSpec == SumInit /\ [][SumNext]_vars

\* the rows of a posts table created on one day
ItemsOn(table, day) == {r \in BagToSet(table) : r.created_utc = day}

\* C8: there is never more than one DailySummary row for a day, a row once
\* written stays as it is, and a run of the job that finds the row of
\* yesterday goes no further than the existence check.
C8_OneSummaryPerDay ==
    [][/\ \A r \in BagToSet(summaries') : CopiesIn(r, summaries') = 1
       /\ \A r1, r2 \in BagToSet(summaries') : r1.date = r2.date => r1 = r2
       /\ \A r \in BagToSet(summaries) : r \in BagToSet(summaries')
       /\ job'.pc \in {"query", "write"}
             => job'.yesterday \notin SummaryDates(summaries')]_vars

\* a run of the job has found the summary of yesterday, written by an
\* earlier run, while items of that day were inserted in between
C8_Witness ==
    /\ job.pc = "idle" /\ job.result = "exists"
    /\ \E r \in BagToSet(summaries) :
          /\ r.date = now - 1
          /\ r.total_posts < Cardinality(ItemsOn(posts, r.date))

\* C9 as claimed: the total_posts of every summary equals the number of
\* stored items of its day, in every state.
C9_TotalEqualsStored ==
    \A r \in BagToSet(summaries) :
       r.total_posts = Cardinality(ItemsOn(posts, r.date))

\* C9 as amended: the job reads exactly the stored items of yesterday, the
\* row it writes counts the items it read, and afterwards the row's
\* total_posts never exceeds the number of stored items of its day.
C9_TotalIsCountAtRead ==
    [][/\ (job.pc = "query" /\ job'.pc = "write")
             => job'.rows = ItemsOn(posts, job.yesterday)
       /\ \A r \in BagToSet(summaries') \ BagToSet(summaries) :
             r.date = job.yesterday /\ r.total_posts = Cardinality(job.rows)
       /\ \A r \in BagToSet(summaries') :
             r.total_posts <= Cardinality(ItemsOn(posts', r.date))]_vars

\* a summary whose day received an item after the job had read it
C9_Witness ==
    \E r \in BagToSet(summaries) :
       r.total_posts < Cardinality(ItemsOn(posts, r.date))

\* C10: in every summary the three label counts add up to total_posts, so
\* the three fractions count / total_posts add up to 1.
C10_CountsAddUp ==
    \A r \in BagToSet(summaries) :
       /\ r.positive_count + r.negative_count + r.neutral_count = r.total_posts
       /\ r.positive_pct[2] = r.total_posts
       /\ r.negative_pct[2] = r.total_posts
       /\ r.neutral_pct[2] = r.total_posts
       /\ r.positive_pct[1] + r.negative_pct[1] + r.neutral_pct[1] = r.total_posts
       /\ r.total_posts > 0

\* a summary of two items with different labels, one of them on a threshold
C10_Witness ==
    \E r \in BagToSet(summaries) :
       /\ r.total_posts = 2
       /\ r.positive_count = 1
       /\ r.negative_count = 1

\* C21: every persisted DailySummary has total_posts >= 1, and a run of
\* the job that finds no item created yesterday leaves the DailySummary
\* table as it was and returns.
C21_NoEmptySummary ==
    [][/\ \A r \in BagToSet(summaries') : r.total_posts >= 1
       /\ (job.pc = "query" /\ job' # job /\ ItemsOn(posts, job.yesterday) = {})
             => /\ job'.pc = "idle"
                /\ summaries' = summaries
       /\ (job.pc = "write" /\ summaries' # summaries) => job.rows # {}]_vars

\* a run has returned at the query for want of items, on a day for which
\* items exist and an earlier summary is stored
C21_Witness ==
    /\ job.pc = "idle" /\ job.result = "empty"
    /\ now = 2
    /\ ItemsOn(posts, 1) = {}
    /\ ItemsOn(posts, 2) # {}
    /\ \E r \in BagToSet(summaries) : r.date = 0

\* C22: a row written by a run that started on day D is keyed by D - 1, its
\* counts are those of the stored items created on day D - 1 when the run
\* read them, and the run writes no row for another day.
C22_PreviousDayOnly ==
    [][/\ (job.pc = "idle" /\ job'.pc = "query")
             => job'.today = now /\ job'.yesterday = now - 1
       /\ (job.pc = "query" /\ job'.pc = "write")
             => /\ job'.rows = ItemsOn(posts, job.yesterday)
                /\ job'.yesterday = job.yesterday
       /\ \A r \in BagToSet(summaries') \ BagToSet(summaries) :
             /\ job.pc = "write"
             /\ r.date = job.today - 1
             /\ r.total_posts = Cardinality(job.rows)
             /\ r.positive_count =
                   Cardinality({x \in job.rows : x.sentiment = "positive"})
             /\ r.negative_count =
                   Cardinality({x \in job.rows : x.sentiment = "negative"})
             /\ r.neutral_count =
                   Cardinality({x \in job.rows : x.sentiment = "neutral"})
             /\ BagToSet(summaries') \ BagToSet(summaries) = {r}]_vars

\* the run of day 2 has written the summary of day 1 while an item of day 2
\* is stored
C22_Witness ==
    /\ job.pc = "idle" /\ job.result = "written"
    /\ now = 2
    /\ \E r \in BagToSet(summaries) : r.date = 1 /\ r.total_posts = 1
    /\ ItemsOn(posts, 2) # {}

(***************************************************************************)
(* One backfill run: the worker started by the startup check, on a         *)
(* platform with or without SIGALRM.                                        *)
(***************************************************************************)
MaxRunId == 2

RunSubmissions == {Submission(id, m) : id \in 1..MaxRunId, m \in {0, 1}}

RunInit ==
    /\ posts = EmptyBag
    /\ sv = [p \in Callers |-> IdleSession]
    /\ hist = NoCall
    /\ summaries = EmptyBag
    /\ now = 0
    /\ job = IdleJob
    /\ backfill_status = FreshStatus
    /\ workers = [w \in Workers |-> NoWorker]
    /\ req = [pc |-> "startup", clears |-> 0]
    /\ sigalrm \in BOOLEAN
    /\ topics = EmptyBag
    /\ tjob = IdleTopicJob

\* the steps of worker w, its provider yielding submissions of the set subs
WorkerNext(w, subs) ==
    \/ WorkerStart(w) /\ UNCHANGED <<hist, topicVars>>
    \/ WorkerEnterPair(w) /\ UNCHANGED <<hist, topicVars>>
    \/ \E x \in subs : WorkerYield(w, x) /\ UNCHANGED <<hist, topicVars>>
    \/ WorkerListingEnd(w) /\ UNCHANGED <<hist, topicVars>>
    \/ WorkerFetchRaises(w) /\ UNCHANGED <<hist, topicVars>>
    \/ WorkerBlocks(w) /\ UNCHANGED <<hist, topicVars>>
    \/ WorkerNothingCollected(w) /\ UNCHANGED <<hist, topicVars>>
    \/ WorkerCallsSave(w) /\ UNCHANGED <<hist, topicVars>>
    \/ SaveItem(w) /\ UNCHANGED <<hist, topicVars>>
    \/ SaveCommit(w) /\ UNCHANGED <<hist, topicVars>>
    \/ SaveFail(w) /\ UNCHANGED <<hist, topicVars>>
    \/ WorkerAfterSave(w) /\ UNCHANGED <<hist, topicVars>>
    \/ WorkerFinally(w) /\ UNCHANGED <<hist, topicVars>>

RunNext ==
    \/ StartupCheck /\ UNCHANGED <<hist, topicVars>>
    \/ WorkerNext("w1", RunSubmissions)

RunSpec == RunInit /\ [][RunNext]_vars

\* the worker thread and the startup thread are scheduled
FairRunSpec ==
    /\ RunSpec
    /\ WF_vars(StartupCheck /\ UNCHANGED <<hist, topicVars>>)
    /\ WF_vars(WorkerNext("w1", RunSubmissions))

\* C4: a backfill run whose save_posts call failed and rolled back ends
\* with an error in the status record.
C4_SaveFailureIsReported ==
    \A w \in Workers :
       (workers[w].pc = "done" /\ workers[w].save_outcome = "rolled_back")
          => backfill_status.error # "none"

\* the ids worker w has collected
CollectedIds(w) ==
    {workers[w].all_collected_items[k].id :
        k \in 1..Len(workers[w].all_collected_items)}

\* C6: whatever happens to the fetch of another pair, the items a run has
\* collected end up persisted (unless save_posts itself fails) in a run that
\* ends completed and without error.
C6_CollectedItemsArePersisted ==
    (workers["w1"].all_collected_items # <<>>)
       ~> /\ workers["w1"].pc = "done"
          /\ backfill_status.completed
          /\ backfill_status.error = "none"
          /\ \/ CollectedIds("w1") \subseteq StoredIds(posts)
             \/ workers["w1"].save_outcome = "rolled_back"

\* C7: a backfill run that has started and not ended can always take a
\* step: no fetch waits on the provider without end.
C7_RunCanProceed ==
    \A w \in Workers :
       workers[w].pc \notin {"none", "done"}
          => ENABLED WorkerNext(w, RunSubmissions)

\* C24: a backfill run that collected no item ends failed: error is set,
\* posts_collected stays 0 and save_posts is not called.
C24_EmptyRunFails ==
    \A w \in Workers :
        (workers[w].pc \in {"finally", "done"}
            /\ workers[w].all_collected_items = <<>>)
        => /\ backfill_status.error # "none"
           /\ backfill_status.completed
           /\ backfill_status.posts_collected = 0
           /\ workers[w].save_outcome = "none"
           /\ sv[w] = IdleSession
           /\ posts = EmptyBag

\* a run whose listings were read, on a platform without SIGALRM, has ended
\* with nothing collected
C24_Witness ==
    /\ workers["w1"].pc = "done"
    /\ workers["w1"].all_collected_items = <<>>
    /\ ~sigalrm
    /\ backfill_status.error = "No posts collected"
    /\ ~backfill_status.in_progress

\* the state a reader of the status record sees
Phase(status) ==
    IF ~status.in_progress /\ ~status.completed THEN "idle"
    ELSE IF status.in_progress /\ ~status.completed THEN "running"
    ELSE IF ~status.in_progress /\ status.completed THEN "finished"
    ELSE "in_progress_and_completed"

\* C23: the status record is always idle, running or finished, in_progress
\* and completed are never both true, and it only moves idle -> running ->
\* finished, or idle -> finished.
C23_StatusMovesForward ==
    [][/\ Phase(backfill_status') \in {"idle", "running", "finished"}
       /\ \/ Phase(backfill_status') = Phase(backfill_status)
          \/ <<Phase(backfill_status), Phase(backfill_status')>> \in
                {<<"idle", "running">>, <<"running", "finished">>,
                 <<"idle", "finished">>}]_vars

(***************************************************************************)
(* The triggers of the backfill: the startup check and the clear-database  *)
(* endpoint, with the workers they start.                                   *)
(***************************************************************************)
TrigSubmissions == {Submission(1, 1)}

TrigInit == RunInit

TrigNext ==
    \/ StartupCheck /\ UNCHANGED <<hist, topicVars>>
    \/ ClearTables /\ UNCHANGED <<hist, tjob>>
    \/ ClearResetStatus /\ UNCHANGED <<hist, topicVars>>
    \/ ClearCheck /\ UNCHANGED <<hist, topicVars>>
    \/ \E w \in Workers : WorkerNext(w, TrigSubmissions)

TrigSpec == TrigInit /\ [][TrigNext]_vars

\* the workers that are inside run_historical_backfill
Running == {w \in Workers : workers[w].pc \notin {"none", "start", "done"}}

\* C5: at no time are two backfill workers executing.
C5_OneRunAtATime == Cardinality(Running) <= 1

(***************************************************************************)
(* The relevance filter of the collector.  A text is a sequence of         *)
(* characters; the texts are the words of Vocabulary joined by spaces.     *)
(* political_keywords holds, in the order of the list, the entries of the  *)
(* collector's list that occur in such a text, and 'cFK', which no         *)
(* lowercased text holds; no other entry of the list occurs in them.       *)
(***************************************************************************)
MaxWords == 3

Vocabulary ==
    {<<"M", "i", "l", "e", "i">>, <<"C", "F", "K">>,
     <<"l", "a", "r", "r", "e", "t", "a">>, <<"h", "o", "l", "a">>,
     <<"g", "r", "a", "c", "i", "a", "s">>}

political_keywords ==
    << <<"m", "i", "l", "e", "i">>, <<"c", "f", "k">>, <<"c", "F", "K">>,
       <<"l", "a", "r", "r", "e", "t", "a">>,
       <<"l", "a", "r", "r", "e", "t", "a">>, <<"k">> >>

\* " ".join(words)
RECURSIVE Join(_)
Join(words) ==
    IF words = <<>> THEN <<>>
    ELSE IF Len(words) = 1 THEN words[1]
    ELSE words[1] \o <<" ">> \o Join(Tail(words))

Texts == {Join(ws) : ws \in SeqsUpTo(Vocabulary, MaxWords)}

\* str.lower() on the characters of the vocabulary
LowerChar(c) ==
    CASE c = "M" -> "m" [] c = "C" -> "c" [] c = "F" -> "f" [] c = "K" -> "k"
      [] c = "A" -> "a" [] c = "B" -> "b" [] c = "E" -> "e"
      [] OTHER -> c

Lower(text) == [i \in 1..Len(text) |-> LowerChar(text[i])]

\* keyword in text
Occurs(keyword, text) ==
    \E i \in 0..(Len(text) - Len(keyword)) :
        SubSeq(text, i + 1, i + Len(keyword)) = keyword

\* sum(1 for keyword in self.political_keywords if keyword in text_lower)
Matches(text) ==
    Cardinality({i \in 1..Len(political_keywords) :
                    Occurs(political_keywords[i], Lower(text))})

\* return matches >= 2
is_political(text) == Matches(text) >= 2

\* every variable but hist, with no job, session, worker or request active
Quiescent ==
    /\ posts = EmptyBag
    /\ sv = [p \in Callers |-> IdleSession]
    /\ summaries = EmptyBag
    /\ now = 0
    /\ job = IdleJob
    /\ backfill_status = FreshStatus
    /\ workers = [w \in Workers |-> NoWorker]
    /\ req = [pc |-> "idle", clears |-> 0]
    /\ sigalrm = TRUE
    /\ topics = EmptyBag
    /\ tjob = IdleTopicJob

quietVars == <<posts, sv, summaries, now, job, backfill_status, workers, req,
               sigalrm, topics, tjob>>

TextInit ==
    /\ Quiescent
    /\ hist \in {[fn |-> "is_political", text |-> t, returned |-> FALSE,
                  result |-> FALSE] :
                    t \in Texts}

\* one call of is_political
IsPoliticalCall ==
    /\ hist.fn = "is_political"
    /\ ~hist.returned
    /\ hist' = [hist EXCEPT !.returned = TRUE,
                            !.result = is_political(hist.text)]
    /\ UNCHANGED quietVars

TextNext == IsPoliticalCall

TextSpec == TextInit /\ [][TextNext]_vars

\* the keywords of the list that occur in the lowercased text
KeywordsIn(text) ==
    {political_keywords[i] : i \in
        {j \in 1..Len(political_keywords) :
            Occurs(political_keywords[j], Lower(text))}}

\* C11: is_political(text) is true iff at least 2 distinct keywords occur in
\* the lowercased text; a text with exactly one distinct keyword is rejected.
C11_TwoDistinctKeywords ==
    (hist.fn = "is_political" /\ hist.returned)
        => (hist.result <=> Cardinality(KeywordsIn(hist.text)) >= 2)

(***************************************************************************)
(* backfill_with_comments: the gate of a submission and the loop over its  *)
(* top comments, for a submission with one comment.  hist holds the locals *)
(* of the loop body.                                                       *)
(***************************************************************************)
MaxPostWords == 1
MinBodyLen == 20

PostTexts == {Join(ws) : ws \in SeqsUpTo(Vocabulary, MaxPostWords)}

\* a gate that asks the comment for one keyword whatever the post holds
CommentGateOwnOnly(comment_matches, matches) == comment_matches >= 1

\* if comment_matches >= 1 or matches >= 2
CommentGate(comment_matches, matches) == comment_matches >= 1 \/ matches >= 2

\* not hasattr(comment, 'body') or len(comment.body) < 20
TooShort(body) == Len(body) < MinBodyLen

CommentInit ==
    /\ Quiescent
    /\ hist \in {[fn |-> "backfill_with_comments", pc |-> "submission",
                  full_text |-> t, matches |-> 0, examined |-> 0,
                  body |-> b, comment_matches |-> 0, appended |-> FALSE,
                  sub_posts |-> 0, sub_comments |-> 0] :
                    t \in PostTexts, b \in Texts}

\* the relevance gate of the submission and the append of post_data
SubmissionGate ==
    /\ hist.fn = "backfill_with_comments"
    /\ hist.pc = "submission"
    /\ LET m == Matches(hist.full_text)
       IN hist' = IF m < 1
                  THEN [hist EXCEPT !.pc = "skipped", !.matches = m]
                  ELSE [hist EXCEPT !.pc = "comments", !.matches = m,
                                    !.sub_posts = 1]
    /\ UNCHANGED quietVars

\* the iteration of the loop over top_comments
CommentStep ==
    /\ hist.fn = "backfill_with_comments"
    /\ hist.pc = "comments"
    /\ hist.examined = 0
    /\ LET body == hist.body
           cm == Matches(body)
           ok == ~TooShort(body) /\ CommentGate(cm, hist.matches)
       IN hist' = [hist EXCEPT
                     !.examined = @ + 1,
                     !.comment_matches = IF TooShort(body) THEN 0 ELSE cm,
                     !.appended = ok,
                     !.sub_comments = IF ok THEN @ + 1 ELSE @]
    /\ UNCHANGED quietVars

CommentNext ==
    \/ SubmissionGate
    \/ CommentStep

CommentSpec == CommentInit /\ [][CommentNext]_vars

\* C12: a comment of at least 20 characters on an accepted post is accepted
\* iff it matches at least 1 keyword or its post matched at least 2; with 0
\* matches under a post with exactly 1 match it is rejected.
C12_CommentInheritsContext ==
    (hist.fn = "backfill_with_comments" /\ hist.examined > 0
        /\ Len(hist.body) >= MinBodyLen)
    => /\ hist.appended <=> (Matches(hist.body) >= 1 \/ hist.matches >= 2)
       /\ (Matches(hist.body) = 0 /\ hist.matches = 1) => ~hist.appended

\* a comment without a keyword is accepted under a post with two matches
C12_Witness ==
    /\ hist.fn = "backfill_with_comments"
    /\ hist.examined = 1
    /\ Len(hist.body) >= MinBodyLen
    /\ Matches(hist.body) = 0
    /\ hist.matches >= 2
    /\ hist.appended
    /\ hist.sub_comments = 1

(***************************************************************************)
(* analyze, from the scores of the lexicon library onwards: the label of   *)
(* every compound score between -1 and 1.                                  *)
(***************************************************************************)
MaxCompound == 10000

Compounds == (0 - MaxCompound)..MaxCompound

ClassifyInit ==
    /\ Quiescent
    /\ hist \in {[fn |-> "analyze", compound |-> c, returned |-> FALSE,
                  sentiment |-> "none", score |-> 0] : c \in Compounds}

\* the classification and the dictionary that analyze returns
ClassifyCall ==
    /\ hist.fn = "analyze"
    /\ ~hist.returned
    /\ hist' = [hist EXCEPT !.returned = TRUE,
                            !.sentiment = Classify(hist.compound),
                            !.score = hist.compound]
    /\ UNCHANGED quietVars

ClassifyNext == ClassifyCall

ClassifySpec == ClassifyInit /\ [][ClassifyNext]_vars

\* C13: every compound score gets exactly one label: positive iff it is at
\* least 0.05, negative iff it is at most -0.05, neutral otherwise; 0.05 and
\* -0.05 themselves are positive and negative.
C13_ThresholdsAreExact ==
    (hist.fn = "analyze" /\ hist.returned)
    => /\ hist.sentiment \in {"positive", "negative", "neutral"}
       /\ hist.sentiment = "positive" <=> hist.compound >= 500
       /\ hist.sentiment = "negative" <=> hist.compound <= -500
       /\ hist.sentiment = "neutral" <=>
             (hist.compound > -500 /\ hist.compound < 500)
       /\ hist.score = hist.compound

\* a score on a threshold has been classified
C13_Witness ==
    /\ hist.fn = "analyze"
    /\ hist.returned
    /\ hist.compound \in {500, -500}
    /\ hist.sentiment \in {"positive", "negative"}

(***************************************************************************)
(* check_and_start_backfill on a store with history: the process starts    *)
(* with the rows an earlier run of the service left in the table.          *)
(***************************************************************************)
\* n rows, the first created on day oldest and the others on day newest
StoreOf(n, oldest, newest) ==
    SetToBag({PostRow(PostData(i, IF i = 1 THEN oldest ELSE newest, 0, 0)) :
                 i \in 1..n})

CheckDay == MinSpanDays + 1

CheckStores ==
    {EmptyBag} \cup
    {StoreOf(n, newest - span, newest) :
        n \in {2, MinPosts - 1, MinPosts},
        span \in {MinSpanDays - 1, MinSpanDays},
        newest \in {CheckDay, CheckDay + 1, CheckDay + 2}}

CheckInit ==
    /\ posts \in CheckStores
    /\ sv = [p \in Callers |-> IdleSession]
    /\ hist = NoCall
    /\ summaries = EmptyBag
    /\ now = CheckDay
    /\ job = IdleJob
    /\ backfill_status = FreshStatus
    /\ workers = [w \in Workers |-> NoWorker]
    /\ req = [pc |-> "startup", clears |-> 0]
    /\ sigalrm \in BOOLEAN
    /\ topics = EmptyBag
    /\ tjob = IdleTopicJob

CheckNext == TrigNext

CheckSpec == CheckInit /\ [][CheckNext]_vars

\* a step of check_and_start_backfill, at startup or in clear_database
CheckStep == req.pc \in {"startup", "reset"} /\ req'.pc = "idle"

\* the step starts a worker thread
StartsWorker ==
    \E w \in Workers : workers'[w].pc = "start" /\ workers[w].pc # "start"

\* the newest row is more than a day after now
FutureDated(table, today) ==
    BagToSet(table) # {} /\ Newest(table) > today + 1

\* fewer than 200 rows, or less than 30 days between oldest and newest
Insufficient(table) ==
    \/ Cardinality(BagToSet(table)) < 200
    \/ Newest(table) - Oldest(table) < 30

\* C14: unless the integrity guard fires, check_and_start_backfill starts a
\* worker iff the store holds fewer than 200 items or spans less than 30
\* days; otherwise it sets completed, leaves posts_collected at 0 and starts
\* no worker.
C14_StartsIffInsufficient ==
    [][(CheckStep /\ ~FutureDated(posts, now))
         => IF Insufficient(posts)
            THEN StartsWorker
            ELSE /\ workers' = workers
                 /\ backfill_status'.completed
                 /\ backfill_status'.posts_collected = 0]_vars

\* C15: when the newest stored item is later than now plus one day,
\* check_and_start_backfill starts no worker and sets an error in the
\* status record.
C15_FutureDatesAreReported ==
    [][(CheckStep /\ FutureDated(posts, now))
         => /\ workers' = workers
            /\ backfill_status'.error # "none"]_vars

(***************************************************************************)
(* The topic trend job beside the inserts of the incremental cycle.        *)
(***************************************************************************)
TopicInit == SeqInit

TopicNext ==
    \/ \E x \in SumItems(now) :
          SaveBegin("cycle", <<x>>) /\ UNCHANGED <<hist, topicVars>>
    \/ SaveItem("cycle") /\ UNCHANGED <<hist, topicVars>>
    \/ SaveCommit("cycle") /\ UNCHANGED <<hist, topicVars>>
    \/ SaveFail("cycle") /\ UNCHANGED <<hist, topicVars>>
    \/ SaveReturn("cycle") /\ UNCHANGED <<hist, topicVars>>
    \/ TopicQuery /\ UNCHANGED hist
    \/ TopicCommit /\ UNCHANGED hist
    \/ TopicFail /\ UNCHANGED hist
    \/ Tick /\ UNCHANGED <<hist, topicVars>>

TopicSpec == TopicInit /\ [][TopicNext]_vars

\* the Topic rows a step adds
AddedTopics == topics' (-) topics

RECURSIVE SumMentions(_, _)
SumMentions(table, rows) ==
    IF rows = {} THEN 0
    ELSE LET r == CHOOSE x \in rows : TRUE
         IN r.mention_count * CopiesIn(r, table) + SumMentions(table, rows \ {r})

\* func.sum(Topic.mention_count) over the rows of one name and one date
TotalMentions(table, name, date) ==
    SumMentions(table, {r \in BagToSet(table) : r.name = name /\ r.date = date})

\* C19: for every topic and day, the sum of mention_count over the Topic
\* rows of that topic and day never exceeds the number of stored items of
\* that day tagged with the topic.
C19_NoDoubleCounting ==
    \A name \in {"milei", "macri"} : \A day \in Days :
        TotalMentions(topics, name, day)
            <= Cardinality(Tagged(ItemsOn(posts, day), name))

(***************************************************************************)
(* save_posts with batches that offer one id with different field values:  *)
(* the vote score of a submission differs between two fetches.  hist holds *)
(* the table as the last call left it.                                     *)
(***************************************************************************)
MaxVarId == 2
MaxVarBatch == 2

VarItems == {PostData(id, 0, 0, score) : id \in 1..MaxVarId, score \in {0, 1}}

VarInit ==
    /\ Quiescent
    /\ hist = [fn |-> "save_posts", store |-> EmptyBag]

VarNext ==
    \/ \E batch \in SeqsUpTo(VarItems, MaxVarBatch) :
          SaveBegin("cycle", batch) /\ UNCHANGED <<hist, topicVars>>
    \/ SaveItem("cycle") /\ UNCHANGED <<hist, topicVars>>
    \/ SaveCommit("cycle") /\ UNCHANGED <<hist, topicVars>>
    \/ SaveFail("cycle") /\ UNCHANGED <<hist, topicVars>>
    \/ /\ SaveReturn("cycle")
       /\ hist' = [hist EXCEPT !.store = posts]
       /\ UNCHANGED topicVars

VarSpec == VarInit /\ [][VarNext]_vars

\* the first post_data of a batch that carries an id
FirstOf(batch, id) ==
    batch[CHOOSE k \in 1..Len(batch) :
             /\ batch[k].id = id
             /\ \A j \in 1..(k - 1) : batch[j].id # id]

\* the ids of a batch
BatchIds(batch) == {batch[k].id : k \in 1..Len(batch)}

\* C17: a successful save_posts(B) on a store S inserts exactly one record
\* per distinct id of B that is not in S, that of the first occurrence in
\* batch order, inserts nothing for the ids in S, and its counters satisfy
\* inserted + skipped = len(B).
C17_InsertsFirstOfEachNewId ==
    LET s == sv["cycle"]
        B == s.posts_data
        S == hist.store
        newIds == BatchIds(B) \ StoredIds(S)
    IN (hist.fn = "save_posts" /\ s.pc = "done" /\ s.outcome = "committed")
         => /\ posts = S (+) SetToBag({[id |-> FirstOf(B, id).id,
                                        created_utc |-> FirstOf(B, id).created_utc,
                                        sentiment |-> FirstOf(B, id).sentiment,
                                        sentiment_score |-> FirstOf(B, id).sentiment_score,
                                        score |-> FirstOf(B, id).score,
                                        topics |-> FirstOf(B, id).topics] :
                                       id \in newIds})
            /\ s.printed[1] = Cardinality(newIds)
            /\ s.printed[1] + s.printed[2] = Len(B)

\* a committed call whose batch offers a new id twice, with two scores, on
\* a store that holds the other id
C17_Witness ==
    LET s == sv["cycle"]
    IN /\ hist.fn = "save_posts"
       /\ s.pc = "done" /\ s.outcome = "committed"
       /\ Len(s.posts_data) = 2
       /\ s.posts_data[1].id = s.posts_data[2].id
       /\ s.posts_data[1].score # s.posts_data[2].score
       /\ hist.store # EmptyBag
       /\ s.printed = <<1, 1>>

(***************************************************************************)
(* The core operations side by side: save_posts called by the incremental  *)
(* cycle and by a backfill run, the two aggregator jobs, and the           *)
(* administrative clear.  The cycle offers an id under varying vote        *)
(* scores; the backfill offers it with another creation day.               *)
(***************************************************************************)
MaxCoreId == 1

CycleItems == {PostData(id, 1, 0, score) : id \in 1..MaxCoreId, score \in {0, 1}}

BackfillItems == {PostData(id, 0, 0, 0) : id \in 1..MaxCoreId}

\* the second day of the service: yesterday is day 0, today is day 1
CoreInit ==
    /\ posts = EmptyBag
    /\ sv = [p \in Callers |-> IdleSession]
    /\ hist = NoCall
    /\ summaries = EmptyBag
    /\ now = 1
    /\ job = IdleJob
    /\ backfill_status = FreshStatus
    /\ workers = [w \in Workers |-> NoWorker]
    /\ req = [pc |-> "idle", clears |-> 0]
    /\ sigalrm = TRUE
    /\ topics = EmptyBag
    /\ tjob = IdleTopicJob

CoreNext ==
    \/ \E x \in CycleItems :
          SaveBegin("cycle", <<x>>) /\ UNCHANGED <<hist, topicVars>>
    \/ \E x \in BackfillItems :
          SaveBegin("w1", <<x>>) /\ UNCHANGED <<hist, topicVars>>
    \/ \E p \in {"cycle", "w1"} : SaveItem(p) /\ UNCHANGED <<hist, topicVars>>
    \/ \E p \in {"cycle", "w1"} : SaveCommit(p) /\ UNCHANGED <<hist, topicVars>>
    \/ \E p \in {"cycle", "w1"} : SaveFail(p) /\ UNCHANGED <<hist, topicVars>>
    \/ \E p \in {"cycle", "w1"} : SaveReturn(p) /\ UNCHANGED <<hist, topicVars>>
    \/ SummaryStart /\ UNCHANGED <<hist, topicVars>>
    \/ SummaryQuery /\ UNCHANGED <<hist, topicVars>>
    \/ SummaryCommit /\ UNCHANGED <<hist, topicVars>>
    \/ SummaryFail /\ UNCHANGED <<hist, topicVars>>
    \/ TopicQuery /\ UNCHANGED hist
    \/ TopicCommit /\ UNCHANGED hist
    \/ TopicFail /\ UNCHANGED hist
    \/ ClearTables /\ UNCHANGED <<hist, tjob>>
    \/ ClearResetStatus /\ UNCHANGED <<hist, topicVars>>
    \/ ClearCheck /\ UNCHANGED <<hist, topicVars>>

CoreSpec == CoreInit /\ [][CoreNext]_vars

\* C16: once a record with a given id is stored, no core operation modifies
\* or removes it, and none stores a second record of that id: its fields
\* stay those of the first successful insert; only the administrative clear
\* deletes records.
C16_StoredRecordsAreFrozen ==
    [][/\ req'.clears = req.clears
          => /\ \A r \in BagToSet(posts) : CopiesIn(r, posts') = CopiesIn(r, posts)
             /\ \A r \in BagToSet(posts') :
                   r.id \in StoredIds(posts) => r \in BagToSet(posts)
       /\ posts' # posts /\ StoredIds(posts) \ StoredIds(posts') # {}
          => req'.clears = req.clears + 1]_vars

\* a call of save_posts by the cycle that offered a stored id under another
\* score and another day has committed, and the record is the one the
\* backfill stored first
C16_Witness ==
    LET s == sv["cycle"]
    IN /\ s.pc = "done" /\ s.outcome = "committed"
       /\ s.printed = <<0, 1>>
       /\ \E r \in BagToSet(posts) :
             /\ r.id = s.posts_data[1].id
             /\ r.score # s.posts_data[1].score
             /\ r.created_utc # s.posts_data[1].created_utc
       /\ summaries # EmptyBag
       /\ topics # EmptyBag

(***************************************************************************)
(* analyze on the two analyzer instances of the service (main.py and the   *)
(* collector each construct one).  A text is a sequence of tokens; an      *)
(* analyzer is its lexicon, valences in tenths.  hist.results holds, per   *)
(* text, every result a call has returned for it.                          *)
(***************************************************************************)
MaxTokens == 2
MaxCalls == 3

Analyzers == {"main", "collector"}

Tokens == {"crisis", "Progreso", "http://t.co"}

AnalyzeTexts == {<<>>} \cup SeqsUpTo(Tokens, MaxTokens)

\* the entries of custom_lexicon for the words of the model
custom_lexicon == [w \in {"crisis", "progreso"} |->
                      IF w = "crisis" THEN -28 ELSE 20]

\* __init__: the library's lexicon updated with custom_lexicon
NewAnalyzer == [lexicon |-> custom_lexicon]

\* preprocess_text on one token: URLs are removed, the rest is lowercased
PreprocessToken(tok) ==
    IF tok = "http://t.co" THEN <<>>
    ELSE IF tok = "Progreso" THEN <<"progreso">>
    ELSE <<tok>>

RECURSIVE preprocess_text(_)
preprocess_text(text) ==
    IF text = <<>> THEN <<>>
    ELSE PreprocessToken(Head(text)) \o preprocess_text(Tail(text))

\* the valence of a word
Valence(lexicon, word) ==
    IF word \in DOMAIN lexicon THEN lexicon[word] ELSE 0

RECURSIVE SumValence(_, _)
SumValence(lexicon, words) ==
    IF words = <<>> THEN 0
    ELSE Valence(lexicon, Head(words)) + SumValence(lexicon, Tail(words))

\* the library's normalisation x / sqrt(x * x + 15), cut to two decimals,
\* in ten-thousandths
Normalize(x) ==
    LET a == IF x < 0 THEN 0 - x ELSE x
        c == CHOOSE k \in 0..100 :
                /\ k * k * (a * a + 1500) <= 10000 * a * a
                /\ (k + 1) * (k + 1) * (a * a + 1500) > 10000 * a * a
    IN IF x < 0 THEN 0 - c * 100 ELSE c * 100

\* self.analyzer.polarity_scores(clean_text): the compound score and the
\* numbers of positive, negative and neutral words over the number of words
polarity_scores(lexicon, words) ==
    LET n == Len(words)
        count(P(_)) == Cardinality({k \in 1..n : P(Valence(lexicon, words[k]))})
        IsPos(v) == v > 0
        IsNeg(v) == v < 0
        IsNeu(v) == v = 0
    IN [compound |-> Normalize(SumValence(lexicon, words)),
        pos |-> <<count(IsPos), n>>, neg |-> <<count(IsNeg), n>>,
        neu |-> <<count(IsNeu), n>>]

\* an analyze that adds the words it meets to its lexicon
AnalyzerLearns(self, text) ==
    [lexicon |-> [w \in DOMAIN self.lexicon |->
                     IF \E k \in 1..Len(text) : text[k] = w
                     THEN self.lexicon[w] + 1 ELSE self.lexicon[w]]]

\* the analyzer after analyze(text): analyze assigns no attribute of self
AnalyzerAfter(self, text) == self

\* analyze(text): the dictionary returned
analyze(self, text) ==
    LET scores == polarity_scores(self.lexicon, preprocess_text(text))
    IN [sentiment |-> Classify(scores.compound), score |-> scores.compound,
        positive |-> scores.pos, negative |-> scores.neg,
        neutral |-> scores.neu]

AnalyzeInit ==
    /\ Quiescent
    /\ hist = [fn |-> "analyze_twice",
               self |-> [a \in Analyzers |-> NewAnalyzer],
               results |-> [t \in AnalyzeTexts |-> {}], calls |-> 0]

\* one call of analyze on one of the instances
AnalyzeCall(a, text) ==
    /\ hist.fn = "analyze_twice"
    /\ hist.calls < MaxCalls
    /\ hist' = [hist EXCEPT
                  !.results[text] = @ \cup {analyze(hist.self[a], text)},
                  !.self[a] = AnalyzerAfter(@, text),
                  !.calls = @ + 1]
    /\ UNCHANGED quietVars

AnalyzeNext == \E a \in Analyzers : \E text \in AnalyzeTexts : AnalyzeCall(a, text)

AnalyzeSpec == AnalyzeInit /\ [][AnalyzeNext]_vars

ShortListing == 2
LongListing == 15
MaxRaiseAt == 2

\* if len(posts) < 20
MinRelevant == 20

ListingNames == <<"hot", "new", "week", "month">>

\* a listing of the provider: the ids Start, Start + 1, ... of a subreddit
Listing(start, len) == [start |-> start, len |-> len]

\* the ids of one subreddit are not those of another
Stride == 3 * LongListing

Feeds ==
    {[hot |-> Listing(1, h), new |-> Listing(s, n),
      week |-> Listing(2 * LongListing + 1, w),
      month |-> Listing(1, ShortListing)] :
        h \in {0, LongListing}, s \in {1, LongListing + 1},
        n \in {0, LongListing}, w \in {ShortListing, LongListing}}

\* the k-th submission of a listing of subreddit sub
ListedId(feed, sub, name, k) == Stride * (sub - 1) + feed[name].start + k - 1

\* submission.title + " " + submission.selftext of the submission with this id
TitleOf(id) ==
    IF id % 3 = 1
    THEN Join(<< <<"h", "o", "l", "a">> >>)
    ELSE Join(<< <<"M", "i", "l", "e", "i">>, <<"C", "F", "K">> >>)

\* process_submission: the post_data appended to posts, or None
process_submission(id, post_ids) ==
    IF id \in post_ids THEN <<>>
    ELSE IF ~is_political(TitleOf(id)) THEN <<>>
    ELSE <<PostData(id, 0, 0, 0)>>

\* the fallbacks fetched whatever was found
NextListingAlways(listing, found) ==
    IF listing < Len(ListingNames) THEN listing + 1 ELSE 0

\* the listing read after this one, 0 when collect_posts returns
NextListing(listing, found) ==
    IF listing = 1 THEN 2
    ELSE IF listing < Len(ListingNames) /\ found < MinRelevant THEN listing + 1
    ELSE 0

\* an except clause that re-raises
CollectPostsReraises == FALSE

\* except Exception as e: print(...), and return posts
CollectPostsCatches == TRUE

InCycle == "fn" \in DOMAIN hist /\ hist.fn = "collect_and_store"

IdleCycle(feed) ==
    [fn |-> "collect_and_store", pc |-> "start", feed |-> feed, sub |-> 0,
     listing |-> 0, k |-> 0, posts |-> <<>>, post_ids |-> {},
     all_posts |-> <<>>, fetched |-> {}, errors |-> 0, aborted |-> FALSE,
     handed |-> <<>>, logged |-> "none"]

CollectInit ==
    /\ Quiescent
    /\ hist \in {IdleCycle(feed) : feed \in Feeds}

\* collect_and_store, collect_all_subreddits: all_posts = []
CollectAndStoreStart ==
    /\ InCycle
    /\ hist.pc = "start"
    /\ hist' = [hist EXCEPT !.pc = "collect_posts", !.sub = 1]
    /\ UNCHANGED quietVars

\* collect_posts(subreddit): posts, post_ids, and the hot listing
CollectPostsBegin ==
    /\ InCycle
    /\ hist.pc = "collect_posts"
    /\ hist' = [hist EXCEPT !.pc = "listing", !.posts = <<>>,
                            !.post_ids = {}, !.listing = 1, !.k = 0,
                            !.fetched = @ \cup {<<hist.sub, ListingNames[1]>>}]
    /\ UNCHANGED quietVars

\* one iteration of a for loop over a listing
ListingYield ==
    /\ InCycle
    /\ hist.pc = "listing"
    /\ hist.k < hist.feed[ListingNames[hist.listing]].len
    /\ LET id == ListedId(hist.feed, hist.sub, ListingNames[hist.listing],
                          hist.k + 1)
           post_data == process_submission(id, hist.post_ids)
       IN hist' = [hist EXCEPT
                     !.k = @ + 1,
                     !.posts = @ \o post_data,
                     !.post_ids = IF post_data = <<>> THEN @ ELSE @ \cup {id}]
    /\ UNCHANGED quietVars

\* the listing is exhausted: the next one, or the return
ListingEnd ==
    /\ InCycle
    /\ hist.pc = "listing"
    /\ hist.k = hist.feed[ListingNames[hist.listing]].len
    /\ LET next == NextListing(hist.listing, Len(hist.posts))
       IN hist' = IF next = 0
                  THEN [hist EXCEPT !.pc = "return"]
                  ELSE [hist EXCEPT
                          !.listing = next, !.k = 0,
                          !.fetched = @ \cup {<<hist.sub, ListingNames[next]>>}]
    /\ UNCHANGED quietVars

\* the except clause drops what was collected from the subreddit
ListingRaisesDropsPosts ==
    /\ InCycle
    /\ hist.pc = "listing"
    /\ hist.k \in 1..MaxRaiseAt
    /\ hist' = [hist EXCEPT !.errors = @ + 1, !.pc = "return", !.posts = <<>>]
    /\ UNCHANGED quietVars

\* the provider raises in a listing: the except clause of collect_posts, or
\* that of collect_and_store if the exception is passed on
ListingRaises ==
    /\ InCycle
    /\ hist.pc = "listing"
    /\ hist.k \in 1..MaxRaiseAt
    /\ hist' = IF CollectPostsCatches
               THEN [hist EXCEPT !.errors = @ + 1, !.pc = "return"]
               ELSE [hist EXCEPT !.errors = @ + 1, !.pc = "done",
                                 !.aborted = TRUE,
                                 !.logged = "Error in data collection"]
    /\ UNCHANGED quietVars

\* return posts, all_posts.extend(posts), and the next subreddit
CollectPostsReturn ==
    /\ InCycle
    /\ hist.pc = "return"
    /\ hist' = [hist EXCEPT
                  !.all_posts = @ \o hist.posts,
                  !.pc = IF hist.sub < NumSubs THEN "collect_posts" ELSE "store",
                  !.sub = IF hist.sub < NumSubs THEN @ + 1 ELSE @]
    /\ UNCHANGED quietVars

\* if posts: save_posts(posts)
CycleCallsSave ==
    /\ InCycle
    /\ hist.pc = "store"
    /\ hist.all_posts # <<>>
    /\ sv["cycle"].pc = "idle"
    /\ sv' = [sv EXCEPT !["cycle"] = OpenSession(hist.all_posts)]
    /\ hist' = [hist EXCEPT !.pc = "saving", !.handed = hist.all_posts]
    /\ UNCHANGED <<posts, sumVars, bfVars, topicVars>>

\* else: logger.warning("No posts collected")
CycleNothingCollected ==
    /\ InCycle
    /\ hist.pc = "store"
    /\ hist.all_posts = <<>>
    /\ hist' = [hist EXCEPT !.pc = "done", !.logged = "No posts collected"]
    /\ UNCHANGED quietVars

\* save_posts has returned: logger.info
CycleAfterSave ==
    /\ InCycle
    /\ hist.pc = "saving"
    /\ sv["cycle"].pc = "done"
    /\ sv' = [sv EXCEPT !["cycle"] = IdleSession]
    /\ hist' = [hist EXCEPT !.pc = "done",
                            !.logged = "Successfully collected and stored"]
    /\ UNCHANGED <<posts, sumVars, bfVars, topicVars>>

CollectNext ==
    \/ CollectAndStoreStart
    \/ CollectPostsBegin
    \/ ListingYield
    \/ ListingEnd
    \/ ListingRaises
    \/ CollectPostsReturn
    \/ CycleCallsSave
    \/ CycleNothingCollected
    \/ InCycle /\ SaveItem("cycle") /\ UNCHANGED <<hist, topicVars>>
    \/ InCycle /\ SaveCommit("cycle") /\ UNCHANGED <<hist, topicVars>>
    \/ InCycle /\ SaveFail("cycle") /\ UNCHANGED <<hist, topicVars>>
    \/ CycleAfterSave

CollectSpec == CollectInit /\ [][CollectNext]_vars

\* the ids of the relevant submissions of the named listings of a subreddit
RelevantIds(feed, sub, names) ==
    {id \in UNION {{ListedId(feed, sub, n, k) : k \in 1..feed[n].len} :
                      n \in names} :
        is_political(TitleOf(id))}

NoIdTwice(batch) ==
    \A i, j \in 1..Len(batch) : batch[i].id = batch[j].id => i = j

IsPrefix(s, t) == Len(s) <= Len(t) /\ SubSeq(t, 1, Len(s)) = s

\* C28: collect_posts reads the top-of-week listing of a subreddit only if
\* its hot and new listings hold fewer than 20 relevant submissions, and the
\* top-of-month listing only if hot, new and week hold fewer than 20; the
\* list it returns has no id twice.  Stated of the subreddit being collected,
\* at every point of its collection.
C28_FallbacksOnlyWhenShort ==
    InCycle =>
        /\ \A sub \in {hist.sub} \cap (1..NumSubs) :
             /\ <<sub, "week">> \in hist.fetched
                => Cardinality(RelevantIds(hist.feed, sub, {"hot", "new"}))
                      < MinRelevant
             /\ <<sub, "month">> \in hist.fetched
                => Cardinality(RelevantIds(hist.feed, sub,
                                           {"hot", "new", "week"}))
                      < MinRelevant
        /\ hist.pc = "return" => NoIdTwice(hist.posts)

\* a call returns at least 20 items after the week fallback, without the
\* month listing, the new listing having repeated the hot one
C28_Witness ==
    /\ InCycle
    /\ hist.pc = "return"
    /\ hist.errors = 0
    /\ hist.feed.hot.len > 0
    /\ hist.feed.new = hist.feed.hot
    /\ <<hist.sub, "week">> \in hist.fetched
    /\ <<hist.sub, "month">> \notin hist.fetched
    /\ Len(hist.posts) >= MinRelevant

\* C29: a provider error in one subreddit does not abort the cycle: every
\* subreddit is collected, the combined list is handed to save_posts, and no
\* exception leaves collect_and_store.
C29_ErrorDoesNotAbortCycle ==
    InCycle =>
        /\ ~hist.aborted
        /\ ~sv["cycle"].propagated
        /\ hist.pc \in {"store", "saving", "done"}
           => \A sub \in 1..NumSubs : <<sub, "hot">> \in hist.fetched
        /\ (hist.pc \in {"saving", "done"} /\ hist.all_posts # <<>>)
           => hist.handed = hist.all_posts
        /\ hist.pc = "done"
           => hist.logged = IF hist.all_posts = <<>>
                            THEN "No posts collected"
                            ELSE "Successfully collected and stored"

\* the first subreddit failed in its hot listing, and the cycle has stored
\* items of the last one
C29_Witness ==
    /\ InCycle
    /\ hist.pc = "done"
    /\ hist.errors = 1
    /\ <<1, "hot">> \in hist.fetched
    /\ <<1, "new">> \notin hist.fetched
    /\ \E i \in 1..Len(hist.handed) :
         /\ hist.handed[i].id > Stride * (NumSubs - 1)
         /\ hist.handed[i].id \in StoredIds(posts)

(***************************************************************************)
(* Either program that reads the provider runs: a backfill run started at  *)
(* startup, or an incremental cycle.                                       *)
(***************************************************************************)
IngestInit == RunInit \/ CollectInit

IngestNext ==
    \/ StartupCheck /\ UNCHANGED <<hist, topicVars>>
    \/ WorkerNext("w1", RunSubmissions)
    \/ CollectNext

IngestSpec == IngestInit /\ [][IngestNext]_vars

SubredditOf(id) == ((id - 1) % NumSubs) + 1

\* reddit_sub.top(time_filter, limit) of a subreddit
ListingOf(sub) == {x \in RunSubmissions : SubredditOf(x.id) = sub}

WindowNext ==
    \/ StartupCheck /\ UNCHANGED <<hist, topicVars>>
    \/ WorkerStart("w1") /\ UNCHANGED <<hist, topicVars>>
    \/ WorkerEnterPair("w1") /\ UNCHANGED <<hist, topicVars>>
    \/ \E x \in ListingOf(workers["w1"].sub) :
          WorkerYield("w1", x) /\ UNCHANGED <<hist, topicVars>>
    \/ WorkerListingEnd("w1") /\ UNCHANGED <<hist, topicVars>>
    \/ WorkerFetchRaises("w1") /\ UNCHANGED <<hist, topicVars>>
    \/ WorkerNothingCollected("w1") /\ UNCHANGED <<hist, topicVars>>
    \/ WorkerCallsSave("w1") /\ UNCHANGED <<hist, topicVars>>
    \/ SaveItem("w1") /\ UNCHANGED <<hist, topicVars>>
    \/ SaveCommit("w1") /\ UNCHANGED <<hist, topicVars>>
    \/ SaveFail("w1") /\ UNCHANGED <<hist, topicVars>>
    \/ WorkerAfterSave("w1") /\ UNCHANGED <<hist, topicVars>>
    \/ WorkerFinally("w1") /\ UNCHANGED <<hist, topicVars>>

WindowSpec == RunInit /\ [][WindowNext]_vars

\* C26: the batch a backfill run passes to save_posts holds no id twice, even
\* when a submission of a subreddit is listed in more than one time window.
C26_BatchHasNoIdTwice ==
    \A w \in Workers :
        /\ NoIdTwice(workers[w].all_collected_items)
        /\ NoIdTwice(sv[w].posts_data)

\* the order of the steps of a run
Rank(pc) ==
    CASE pc = "none" -> 0 [] pc = "start" -> 1
      [] pc \in {"pair", "fetch", "blocked"} -> 2
      [] pc = "persist" -> 3 [] pc = "saving" -> 4
      [] pc = "finally" -> 5 [] pc = "done" -> 6

\* C27: a backfill run calls save_posts only once, after the last (window,
\* subreddit) pair was read or abandoned; nothing is stored before that call;
\* a run that collected an item ends only through the call, and the record
\* turns completed only once the call has returned.
C27_OneSaveAfterAllFetches ==
    [][\A w \in Workers :
          /\ Rank(workers'[w].pc) >= Rank(workers[w].pc)
          /\ (sv[w].pc = "idle" /\ sv'[w].pc # "idle")
             => /\ workers[w].pc = "persist" /\ workers'[w].pc = "saving"
                /\ workers[w].period = NumPeriods /\ workers[w].sub = NumSubs
                /\ sv'[w].posts_data = workers[w].all_collected_items
          /\ Rank(workers[w].pc) \in 1..3
             => posts = EmptyBag /\ sv[w].pc = "idle"
          /\ Rank(workers[w].pc) >= 5 => sv'[w] = IdleSession
          /\ (Rank(workers[w].pc) < 5 /\ Rank(workers'[w].pc) >= 5
                /\ workers[w].all_collected_items # <<>>)
             => workers[w].pc = "saving" /\ sv[w].pc = "done"
          /\ (~backfill_status.completed /\ backfill_status'.completed
                /\ workers[w].pc # "none")
             => \/ workers[w].all_collected_items = <<>>
                \/ workers[w].pc = "saving" /\ sv[w].pc = "done"]_vars

\* a run has collected two items, stored them with one call and completed
C27_Witness ==
    /\ workers["w1"].pc = "done"
    /\ Len(workers["w1"].all_collected_items) = 2
    /\ workers["w1"].save_outcome = "committed"
    /\ backfill_status.completed
    /\ backfill_status.posts_collected = 2
    /\ StoredIds(posts) = {1, 2}

(***************************************************************************)
(* extract_topics, on texts of up to MaxWords words.                       *)
(***************************************************************************)
keywords ==
    << <<"e", "c", "o", "n", "o", "m", "í", "a">>,
       <<"i", "n", "f", "l", "a", "c", "i", "ó", "n">>,
       <<"d", "ó", "l", "a", "r">>,
       <<"p", "e", "s", "o">>,
       <<"m", "i", "l", "e", "i">>,
       <<"c", "r", "i", "s", "t", "i", "n", "a">>,
       <<"m", "a", "c", "r", "i">>,
       <<"m", "a", "s", "s", "a">>,
       <<"p", "e", "r", "o", "n", "i", "s", "m", "o">>,
       <<"k", "i", "r", "c", "h", "n", "e", "r", "i", "s", "m", "o">>,
       <<"l", "i", "b", "e", "r", "t", "a", "r", "i", "o", "s">>,
       <<"e", "d", "u", "c", "a", "c", "i", "ó", "n">>,
       <<"s", "a", "l", "u", "d">>,
       <<"s", "e", "g", "u", "r", "i", "d", "a", "d">>,
       <<"t", "r", "a", "b", "a", "j", "o">>,
       <<"c", "o", "r", "r", "u", "p", "c", "i", "ó", "n">>,
       <<"j", "u", "s", "t", "i", "c", "i", "a">>,
       <<"p", "o", "l", "í", "t", "i", "c", "a">>,
       <<"c", "o", "n", "g", "r", "e", "s", "o">>,
       <<"s", "e", "n", "a", "d", "o">>,
       <<"d", "i", "p", "u", "t", "a", "d", "o", "s">>,
       <<"p", "r", "o", "v", "i", "n", "c", "i", "a", "s">>,
       <<"c", "a", "b", "a">>,
       <<"b", "u", "e", "n", "o", "s", " ", "a", "i", "r", "e", "s">> >>

TopicVocabulary ==
    {<<"M", "i", "l", "e", "i">>,
     <<"p", "e", "s", "o", "s">>,
     <<"B", "u", "e", "n", "o", "s">>,
     <<"A", "i", "r", "e", "s">>,
     <<"E", "c", "o", "n", "o", "m", "í", "a">>}

TopicTexts == {Join(ws) : ws \in SeqsUpTo(TopicVocabulary, MaxWords)}

\* the positions at which the keyword starts in the text
Occurrences(keyword, text) ==
    {i \in 0..(Len(text) - Len(keyword)) :
        SubSeq(text, i + 1, i + Len(keyword)) = keyword}

\* one append for each occurrence of the keyword
TagsPerOccurrence(keyword, text_lower) ==
    [i \in 1..Cardinality(Occurrences(keyword, text_lower)) |-> keyword]

\* if keyword in text_lower: topics.append(keyword)
TagsFor(keyword, text_lower) ==
    IF Occurs(keyword, text_lower) THEN <<keyword>> ELSE <<>>

\* the for loop over keywords, from the k-th keyword on
RECURSIVE TopicsFrom(_, _)
TopicsFrom(k, text_lower) ==
    IF k > Len(keywords) THEN <<>>
    ELSE TagsFor(keywords[k], text_lower) \o TopicsFrom(k + 1, text_lower)

extract_topics(text) == TopicsFrom(1, Lower(text))

ExtractInit ==
    /\ Quiescent
    /\ hist \in {[fn |-> "extract_topics", text |-> t, returned |-> FALSE,
                  result |-> <<>>] :
                    t \in TopicTexts}

\* one call of extract_topics
ExtractTopicsCall ==
    /\ hist.fn = "extract_topics"
    /\ ~hist.returned
    /\ hist' = [hist EXCEPT !.returned = TRUE,
                            !.result = extract_topics(hist.text)]
    /\ UNCHANGED quietVars

ExtractNext == ExtractTopicsCall

ExtractSpec == ExtractInit /\ [][ExtractNext]_vars

\* the position of a tag in the keyword list
KeywordIndex(tag) == CHOOSE k \in 1..Len(keywords) : keywords[k] = tag

\* C30: extract_topics returns the keywords that occur in the lowercased
\* text, each once, in the order of the keyword list.
C30_TopicsAreKeywordSubsequence ==
    (hist.fn = "extract_topics" /\ hist.returned)
    => LET r == hist.result
       IN /\ {r[i] : i \in 1..Len(r)}
                = {keywords[k] : k \in {j \in 1..Len(keywords) :
                                          Occurs(keywords[j], Lower(hist.text))}}
          /\ \A i, j \in 1..Len(r) :
                i < j => KeywordIndex(r[i]) < KeywordIndex(r[j])

\* a text that names one keyword twice and then another inside a longer
\* word: each is returned once, in the order of the list and not of the text
C30_Witness ==
    /\ hist.fn = "extract_topics"
    /\ hist.returned
    /\ hist.text = Join(<< <<"M", "i", "l", "e", "i">>,
                           <<"M", "i", "l", "e", "i">>,
                           <<"p", "e", "s", "o", "s">> >>)
    /\ hist.result = << <<"p", "e", "s", "o">>, <<"m", "i", "l", "e", "i">> >>

(***************************************************************************)
(* The ids of the items backfill_with_comments.py hands to save_posts.     *)
(* Ids of the provider are strings over its alphabet, which has no "_".    *)
(***************************************************************************)
MaxSubmissions == 2
MaxComments == 1

IdAlphabet == {"a", "b"}

\* submission.id, comment.id: one character each
RedditIds == {<<c>> : c \in IdAlphabet}

\* a comment_data that keeps the id of the comment
CommentIdPlain(post_id, comment_id) == comment_id

\* f"{submission.id}_{comment.id}"
CommentId(post_id, comment_id) == post_id \o <<"_">> \o comment_id

\* post_data of a submission
ScriptPostData(post_id) ==
    [id |-> post_id, created_utc |-> 0, sentiment |-> "neutral",
     sentiment_score |-> 0, score |-> 0, topics |-> <<>>, source |-> "reddit"]

\* comment_data of an accepted comment of a submission
ScriptCommentData(post_id, comment_id) ==
    [id |-> CommentId(post_id, comment_id), created_utc |-> 0,
     sentiment |-> "neutral", sentiment_score |-> 0, score |-> 0,
     topics |-> <<>>, source |-> "reddit_comment"]

\* the submissions of the listings: an id and the ids of the accepted comments
ListedSubmissions ==
    {[id |-> p, comments |-> cs] :
        p \in RedditIds,
        cs \in {<<>>} \cup SeqsUpTo(RedditIds, MaxComments)}

\* all_collected_items: each post_data followed by its comment_data
RECURSIVE CollectedFrom(_)
CollectedFrom(submissions) ==
    IF submissions = <<>> THEN <<>>
    ELSE LET x == submissions[1]
         IN <<ScriptPostData(x.id)>>
            \o [k \in 1..Len(x.comments) |->
                   ScriptCommentData(x.id, x.comments[k])]
            \o CollectedFrom(Tail(submissions))

\* what an earlier run has stored: nothing, a post, or a comment
EarlierItems ==
    {<<>>} \cup {<<ScriptPostData(p)>> : p \in RedditIds}
           \cup {<<ScriptCommentData(p, c)>> : p \in RedditIds, c \in RedditIds}

ScriptInit ==
    /\ sv = [p \in Callers |-> IdleSession]
    /\ summaries = EmptyBag
    /\ now = 0
    /\ job = IdleJob
    /\ backfill_status = FreshStatus
    /\ workers = [w \in Workers |-> NoWorker]
    /\ req = [pc |-> "idle", clears |-> 0]
    /\ sigalrm = TRUE
    /\ topics = EmptyBag
    /\ tjob = IdleTopicJob
    /\ \E earlier \in EarlierItems :
       \E submissions \in SeqsUpTo(ListedSubmissions, MaxSubmissions) :
          /\ posts = RowsBag([k \in 1..Len(earlier) |-> PostRow(earlier[k])])
          /\ hist = [fn |-> "backfill_with_comments_save", pc |-> "collected",
                     earlier |-> earlier,
                     all_collected_items |-> CollectedFrom(submissions)]

\* save_posts(all_collected_items)
ScriptCallsSave ==
    /\ hist.fn = "backfill_with_comments_save"
    /\ hist.pc = "collected"
    /\ sv["script"].pc = "idle"
    /\ sv' = [sv EXCEPT !["script"] = OpenSession(hist.all_collected_items)]
    /\ hist' = [hist EXCEPT !.pc = "saving"]
    /\ UNCHANGED <<posts, sumVars, bfVars, topicVars>>

ScriptNext ==
    \/ ScriptCallsSave
    \/ SaveItem("script") /\ UNCHANGED <<hist, topicVars>>
    \/ SaveCommit("script") /\ UNCHANGED <<hist, topicVars>>
    \/ SaveFail("script") /\ UNCHANGED <<hist, topicVars>>

ScriptSpec == ScriptInit /\ [][ScriptNext]_vars

\* the (id, source) pairs of a list of items
Kinds(items) == {<<items[k].id, items[k].source>> : k \in 1..Len(items)}

\* C31: a comment item has the id post_id + "_" + comment_id, which is the id
\* of no post; so save_posts skips an item only for an item of its own kind:
\* the items it adds are as many as the distinct (id, kind) pairs offered and
\* not stored before, and after its commit every offered id is stored.
C31_CommentIdsNeverCollideWithPosts ==
    (hist.fn = "backfill_with_comments_save")
    => LET offered == hist.all_collected_items
           s == sv["script"]
       IN /\ \A x \in Kinds(offered) \cup Kinds(hist.earlier) :
             \A y \in Kinds(offered) \cup Kinds(hist.earlier) :
                x[1] = y[1] => x[2] = y[2]
          /\ \A k \in 1..Len(offered) :
                offered[k].source = "reddit_comment"
                => \E p, c \in RedditIds :
                      offered[k].id = p \o <<"_">> \o c
          /\ (s.pc = "loop" /\ s.i > Len(offered))
             => s.saved_count
                   = Cardinality(Kinds(offered) \ Kinds(hist.earlier))
          /\ s.outcome = "committed"
             => \A k \in 1..Len(offered) : offered[k].id \in StoredIds(posts)

\* a post and its comment have the same provider id, a post with that id was
\* stored before, and the comment is stored by the call
C31_Witness ==
    /\ hist.fn = "backfill_with_comments_save"
    /\ sv["script"].outcome = "committed"
    /\ hist.all_collected_items
          = <<ScriptPostData(<<"a">>), ScriptCommentData(<<"a">>, <<"a">>)>>
    /\ hist.earlier = <<ScriptPostData(<<"a">>)>>
    /\ sv["script"].saved_count = 1
    /\ sv["script"].skipped_count = 1
    /\ StoredIds(posts) = {<<"a">>, <<"a", "_", "a">>}

(***************************************************************************)
(* top_topics of generate_daily_summary, on the topics of the day's posts  *)
(* in the order the query returned them.                                   *)
(***************************************************************************)
MaxSummaryPosts == 3

\* topic_counts.most_common(10)
TopN == 10

\* the keywords with an index in S, in list order: a list extract_topics returns
TopicList(S) ==
    LET F[k \in 0..Len(keywords)] ==
            IF k = 0 THEN <<>>
            ELSE IF k \in S THEN Append(F[k - 1], keywords[k]) ELSE F[k - 1]
    IN F[Len(keywords)]

\* post.topics of the posts of the day
DayTopicLists ==
    {TopicList(S) : S \in {{}, {5}, {7}, {5, 7}, 1..(TopN + 1), 2..(TopN + 2)}}

\* all_topics: the for loop with extend
RECURSIVE AllTopics(_)
AllTopics(day_posts) ==
    IF day_posts = <<>> THEN <<>>
    ELSE day_posts[1] \o AllTopics(Tail(day_posts))

\* Counter(all_topics): the keys in the order of their first occurrence
RECURSIVE KeysAfter(_, _)
KeysAfter(keys, all_topics) ==
    IF all_topics = <<>> THEN keys
    ELSE KeysAfter(IF \E j \in 1..Len(keys) : keys[j] = Head(all_topics)
                   THEN keys ELSE Append(keys, Head(all_topics)),
                   Tail(all_topics))

CounterKeys(all_topics) == KeysAfter(<<>>, all_topics)

\* Counter(all_topics)[topic]
CounterCount(all_topics, topic) ==
    Cardinality({k \in 1..Len(all_topics) : all_topics[k] = topic})

\* most_common with no limit
MostCommonAll(all_topics, n) ==
    LET keys == CounterKeys(all_topics)
        Before(i, j) ==
            \/ CounterCount(all_topics, keys[i]) > CounterCount(all_topics, keys[j])
            \/ /\ CounterCount(all_topics, keys[i]) = CounterCount(all_topics, keys[j])
               /\ i < j
        Place(i) == 1 + Cardinality({j \in 1..Len(keys) : Before(j, i)})
    IN [p \in 1..Len(keys) |->
           LET i == CHOOSE i \in 1..Len(keys) : Place(i) = p
           IN [topic |-> keys[i], count |-> CounterCount(all_topics, keys[i])]]

\* most_common(n): the items sorted by count, largest first, items of equal
\* count in the order of the Counter, cut to n
MostCommon(all_topics, n) ==
    LET keys == CounterKeys(all_topics)
        Before(i, j) ==
            \/ CounterCount(all_topics, keys[i]) > CounterCount(all_topics, keys[j])
            \/ /\ CounterCount(all_topics, keys[i]) = CounterCount(all_topics, keys[j])
               /\ i < j
        Place(i) == 1 + Cardinality({j \in 1..Len(keys) : Before(j, i)})
        m == IF Len(keys) < n THEN Len(keys) ELSE n
    IN [p \in 1..m |->
           LET i == CHOOSE i \in 1..Len(keys) : Place(i) = p
           IN [topic |-> keys[i], count |-> CounterCount(all_topics, keys[i])]]

\* top_topics of the summary
top_topics(day_posts) == MostCommon(AllTopics(day_posts), TopN)

TopTopicsInit ==
    /\ Quiescent
    /\ hist \in {[fn |-> "top_topics", posts |-> ps, returned |-> FALSE,
                  result |-> <<>>] :
                    ps \in SeqsUpTo(DayTopicLists, MaxSummaryPosts)}

\* the statistics step of generate_daily_summary
TopTopicsCall ==
    /\ hist.fn = "top_topics"
    /\ ~hist.returned
    /\ hist' = [hist EXCEPT !.returned = TRUE,
                            !.result = top_topics(hist.posts)]
    /\ UNCHANGED quietVars

TopTopicsNext == TopTopicsCall

TopTopicsSpec == TopTopicsInit /\ [][TopTopicsNext]_vars

\* the number of posts tagged with a topic
TaggedPosts(day_posts, topic) ==
    Cardinality({k \in 1..Len(day_posts) :
                    \E j \in 1..Len(day_posts[k]) : day_posts[k][j] = topic})

\* the position of the first post tagged with a topic, and the position of
\* the topic in it
FirstSeen(day_posts, topic) ==
    LET k == CHOOSE k \in 1..Len(day_posts) :
                /\ \E j \in 1..Len(day_posts[k]) : day_posts[k][j] = topic
                /\ \A l \in 1..(k - 1) :
                      \A j \in 1..Len(day_posts[l]) : day_posts[l][j] # topic
    IN <<k, CHOOSE j \in 1..Len(day_posts[k]) : day_posts[k][j] = topic>>

\* C32: top_topics has at most 10 entries, of distinct topics, in
\* non-increasing order of count, entries of equal count in the order in
\* which the topics were first met in the day's posts; each count is the
\* number of the day's posts tagged with the topic, and no topic left out
\* has more posts than one that is listed.
C32_TopTopics ==
    (hist.fn = "top_topics" /\ hist.returned)
    => LET r == hist.result
           ps == hist.posts
           all == {t \in {keywords[k] : k \in 1..Len(keywords)} :
                      TaggedPosts(ps, t) > 0}
       IN /\ Len(r) <= 10
          /\ Len(r) = IF Cardinality(all) < 10 THEN Cardinality(all) ELSE 10
          /\ \A i \in 1..Len(r) :
                /\ r[i].topic \in all
                /\ r[i].count = TaggedPosts(ps, r[i].topic)
          /\ \A i, j \in 1..Len(r) :
                i < j =>
                   /\ r[i].topic # r[j].topic
                   /\ r[i].count >= r[j].count
                   /\ r[i].count = r[j].count
                      => LET a == FirstSeen(ps, r[i].topic)
                             b == FirstSeen(ps, r[j].topic)
                         IN a[1] < b[1] \/ (a[1] = b[1] /\ a[2] < b[2])
          /\ \A t \in all :
                (\A i \in 1..Len(r) : r[i].topic # t)
                => \A i \in 1..Len(r) : r[i].count >= TaggedPosts(ps, t)

\* twelve topics are met in three posts; ten are listed, the most frequent
\* first, then those of equal count in the order in which they were met
C32_Witness ==
    /\ hist.fn = "top_topics"
    /\ hist.returned
    /\ hist.posts = <<TopicList(1..(TopN + 1)), TopicList({7}),
                      TopicList(2..(TopN + 2))>>
    /\ Len(hist.result) = 10
    /\ hist.result[1] = [topic |-> keywords[7], count |-> 3]
    /\ hist.result[2] = [topic |-> keywords[2], count |-> 2]

(***************************************************************************)
(* The end of a backfill run, and the status record while runs execute.    *)
(***************************************************************************)
\* the thread started at startup runs, whichever it is
EndNext ==
    \/ StartupCheck /\ UNCHANGED <<hist, topicVars>>
    \/ \E w \in Workers : WorkerNext(w, RunSubmissions)

\* the startup thread and the worker threads are scheduled
FairEndSpec ==
    /\ RunInit
    /\ [][EndNext]_vars
    /\ WF_vars(StartupCheck /\ UNCHANGED <<hist, topicVars>>)
    /\ \A w \in Workers : WF_vars(WorkerNext(w, RunSubmissions))

\* C33: every backfill run that starts eventually ends, with in_progress
\* false and completed true in the status record.
C33_RunEventuallyEnds ==
    \A w \in Workers :
        (workers[w].pc = "start")
           ~> (/\ workers[w].pc = "done"
               /\ ~backfill_status.in_progress
               /\ backfill_status.completed)

\* C34: while a worker is executing run_historical_backfill, past its first
\* assignment, the status record has in_progress true.
C34_InProgressWhileRunning ==
    Running # {} => backfill_status.in_progress

\* C35: when a backfill run has ended without error, posts_collected is the
\* number of rows its save_posts call inserted.  The store is empty when the
\* run starts and nothing else writes to it, so that number is the number of
\* rows in the store.
C35_PostsCollectedIsInserted ==
    \A w \in Workers :
        (workers[w].pc \in {"finally", "done"} /\ backfill_status.error = "none")
        => backfill_status.posts_collected = BagCardinality(posts)

(***************************************************************************)
(* One save_posts call of the incremental cycle and one of a backfill run, *)
(* overlapping in time, with no database failure other than a refused      *)
(* INSERT.  hist records the ids offered and the calls that returned.      *)
(***************************************************************************)
MaxOverlapId == 2
MaxOverlapBatch == 2

OverlapCallers == {"cycle", "w1"}

OverlapItems == {PostData(id, 0, 0, 0) : id \in 1..MaxOverlapId}

OverlapInit ==
    /\ Quiescent
    /\ hist = [fn |-> "overlap", offered |-> [p \in OverlapCallers |-> {}],
               called |-> {}, returned |-> {}]

\* the call of save_posts by the cycle or by the run
OverlapCall(p, batch) ==
    /\ hist.fn = "overlap"
    /\ p \notin hist.called
    /\ SaveBegin(p, batch)
    /\ hist' = [hist EXCEPT
                  !.called = @ \cup {p},
                  !.offered[p] = {batch[k].id : k \in 1..Len(batch)}]
    /\ UNCHANGED topicVars

\* the return of save_posts to its caller
OverlapReturn(p) ==
    /\ hist.fn = "overlap"
    /\ SaveReturn(p)
    /\ hist' = [hist EXCEPT !.returned = @ \cup {p}]
    /\ UNCHANGED topicVars

OverlapNext ==
    \E p \in OverlapCallers :
       \/ \E batch \in SeqsUpTo(OverlapItems, MaxOverlapBatch) : OverlapCall(p, batch)
       \/ hist.fn = "overlap" /\ SaveItem(p) /\ UNCHANGED <<hist, topicVars>>
       \/ hist.fn = "overlap" /\ SaveCommit(p) /\ UNCHANGED <<hist, topicVars>>
       \/ OverlapReturn(p)

OverlapSpec == OverlapInit /\ [][OverlapNext]_vars

\* C36: once the two calls have returned, every id offered in either batch is
\* in the store.
C36_NoOfferedItemLost ==
    (hist.fn = "overlap" /\ hist.returned = OverlapCallers)
    => \A p \in OverlapCallers : hist.offered[p] \subseteq StoredIds(posts)

(***************************************************************************)
(* The daily summary job kept running, with no database failure, while     *)
(* the clock advances and items of today and of earlier days are stored.   *)
(***************************************************************************)
DailyNext ==
    \/ \E x \in SumItems(now) : SaveBegin("cycle", <<x>>) /\ UNCHANGED <<hist, topicVars>>
    \/ SaveItem("cycle") /\ UNCHANGED <<hist, topicVars>>
    \/ SaveCommit("cycle") /\ UNCHANGED <<hist, topicVars>>
    \/ SaveReturn("cycle") /\ UNCHANGED <<hist, topicVars>>
    \/ SummaryStart /\ UNCHANGED <<hist, topicVars>>
    \/ SummaryQuery /\ UNCHANGED <<hist, topicVars>>
    \/ SummaryCommit /\ UNCHANGED <<hist, topicVars>>
    \/ Tick /\ UNCHANGED <<hist, topicVars>>

\* the job is started again and again, and each of its runs goes on to its end
FairDailySpec ==
    /\ SumInit
    /\ [][DailyNext]_vars
    /\ WF_vars(SummaryStart /\ UNCHANGED <<hist, topicVars>>)
    /\ WF_vars(SummaryQuery /\ UNCHANGED <<hist, topicVars>>)
    /\ WF_vars(SummaryCommit /\ UNCHANGED <<hist, topicVars>>)

\* C37: with the summary job kept running, every day before today for which
\* the store holds an item eventually has a DailySummary row.
C37_EveryPastDayIsSummarised ==
    \A d \in Days :
        (d < now /\ ItemsOn(posts, d) # {}) ~> ExistingSummary(summaries, d)

====
